---- MODULE Spec2Model ----
(***************************************************************************)
(* A state-machine model of the unified electro-mechanical harvester model *)
(* (unified_model): the UnifiedModel solver orchestrator and its scoring   *)
(* helpers, the evaluator protocol, the FluxDatabase, the ElectricalModel, *)
(* the ConstantDamper and the MagneticSpring.                              *)
(*                                                                         *)
(* Python values are modelled as follows.  None is the record None; an     *)
(* ndarray is wrapped as Arr(a) so that "is None" tests stay decidable;    *)
(* a dict is a sequence of [key, val] entries in insertion order; an       *)
(* exception is named by its class.  Every method call leaves its outcome  *)
(* in ret: [op, exc, val]; the setters share the op "set".                  *)
(***************************************************************************)
EXTENDS Integers, Sequences, FiniteSets, TLC

VARIABLES
    \* UnifiedModel attributes (unified.py, __init__)
    mechanical_model, electrical_model, coupling_model, governing_equations,
    raw_solution, post_processing_pipeline, time,
    \* locals of the last UnifiedModel.solve call: the integrator's result and
    \* the pipeline invocations it made, in call order
    psoln, pipeline_calls,
    \* ElectricalSystemEvaluator attributes, and the number of fit calls made
    emf_target, time_target, emf_predict, time_predict,
    emf_target_, emf_predict_, time_, fit_calls,
    \* FluxDatabase attributes (flux_time is its attribute time), and the
    \* history of the entries added: parameter set |-> last value added
    raw_database, velocity, flux_time, z, lut, database, added,
    \* ElectricalModel attributes
    flux_model, dflux_model, coil_resistance, load_model, flux_gradient,
    precompute_gradient,
    \* ConstantDamper attribute
    damping_coefficient,
    \* MagneticSpring attributes
    fea_dataframe, model, model_parameters, model_type,
    \* the file system: directories, plain files and pickled artifacts
    disk,
    \* outcome of the last call: [op |-> method, exc |-> exception, val |-> value]
    ret

unified_vars == <<mechanical_model, electrical_model, coupling_model,
                  governing_equations, raw_solution, post_processing_pipeline,
                  time, psoln, pipeline_calls>>

evaluator_vars == <<emf_target, time_target, emf_predict, time_predict,
                    emf_target_, emf_predict_, time_, fit_calls>>

flux_vars == <<raw_database, velocity, flux_time, z, lut, database, added>>

electrical_vars == <<flux_model, dflux_model, coil_resistance, load_model,
                     flux_gradient, precompute_gradient>>

damper_vars == <<damping_coefficient>>

spring_vars == <<fea_dataframe, model, model_parameters, model_type>>

mechanical_vars == <<damper_vars, spring_vars>>

non_unified_vars == <<evaluator_vars, flux_vars, electrical_vars, mechanical_vars, disk>>

non_evaluator_vars == <<unified_vars, flux_vars, electrical_vars, mechanical_vars, disk>>

non_flux_vars == <<unified_vars, evaluator_vars, electrical_vars, mechanical_vars, disk>>

non_electrical_vars == <<unified_vars, evaluator_vars, flux_vars, mechanical_vars, disk>>

non_mechanical_vars == <<unified_vars, evaluator_vars, flux_vars, electrical_vars, disk>>

vars == <<unified_vars, evaluator_vars, flux_vars, electrical_vars, mechanical_vars,
          disk, ret>>

----------------------------------------------------------------------------
(* Python values *)

None == [none |-> TRUE]

Arr(a) == [a |-> a]

\* the object a fluent setter returns
Self == [self |-> TRUE]

NoExc == "None"

Returned(op, val) == [op |-> op, exc |-> NoExc, val |-> val]

Raised(op, exc) == [op |-> op, exc |-> exc, val |-> None]

Min(a, b) == IF a <= b THEN a ELSE b

Max(a, b) == IF a >= b THEN a ELSE b

(* dict: membership, lookup, assignment d[k] = v (an existing key keeps its
   position, a new key is appended) *)
DictHas(d, k) == \E i \in 1..Len(d) : d[i].key = k

DictGet(d, k) == d[CHOOSE i \in 1..Len(d) : d[i].key = k].val

\* a dict whose assignment moves a key that is already there to the end
DictSet_move_to_end(d, k, v) ==
    Append(SelectSeq(d, LAMBDA e : e.key # k), [key |-> k, val |-> v])

DictSet(d, k, v) ==
    IF DictHas(d, k)
    THEN [i \in 1..Len(d) |-> IF d[i].key = k THEN [key |-> k, val |-> v] ELSE d[i]]
    ELSE Append(d, [key |-> k, val |-> v])

(* ndarray.T of a two-dimensional array given as a sequence of rows *)
Transpose(m) ==
    IF m = <<>> THEN <<>>
    ELSE [j \in 1..Len(m[1]) |-> [i \in 1..Len(m) |-> m[i][j]]]

----------------------------------------------------------------------------
(* Bounds and input domains *)

\* the state vector has five components, x1..x5
StateDim == 5

\* simulations end at a time in 0..MaxTime
MaxTime == 2

StartTimes == {0}

StepSizes == {1, 2}

Methods == {"RK45", "RK23"}

InitialStates == {<<0, 1, 2, -1, 0>>, <<0, 0, 4, 0, 0>>}

MechanicalModels == {[cls |-> "MechanicalModel"]}

ElectricalModels == {[cls |-> "ElectricalModel"]}

CouplingModels == {[cls |-> "ConstantCoupling"]}

GoverningEquations == {[fn |-> "unified_ode"], [fn |-> "singular_ode"]}

PipelineNames == {"clip", "flip"}

PipelineFunctions == {"clip_x2", "flip_x2", "strict_x2"}

(* Output expressions: a symbol, or the difference of two symbols *)
Sym(name) == [op |-> "sym", l |-> name, r |-> name]

Sub(l, r) == [op |-> "sub", l |-> l, r |-> r]

\* get_result(c1='x1', ..., c5='x5', time='t')
RoundTripQuery ==
    <<[key |-> "c1", val |-> Sym("x1")], [key |-> "c2", val |-> Sym("x2")],
      [key |-> "c3", val |-> Sym("x3")], [key |-> "c4", val |-> Sym("x4")],
      [key |-> "c5", val |-> Sym("x5")], [key |-> "time", val |-> Sym("t")]>>

\* get_result(time='t', prediction='x3-x1'), as the scoring helpers call it
PredictionQuery ==
    <<[key |-> "time", val |-> Sym("t")],
      [key |-> "prediction", val |-> Sub("x3", "x1")]>>

\* get_result(bad='x6'): x6 is no symbol of a five-component state
UnknownSymbolQuery == <<[key |-> "bad", val |-> Sym("x6")]>>

ResultQueries == {RoundTripQuery, PredictionQuery, UnknownSymbolQuery}

----------------------------------------------------------------------------
(* Callables handed to the UnifiedModel *)

(* A post-processing pipeline: one state vector in, one state vector out.
   clip_x2 clips a negative x2 to zero, flip_x2 negates x2, strict_x2 returns
   its argument and raises on a negative x2. *)
Pipeline(fn, y) ==
    CASE fn = "clip_x2"   -> [exc |-> NoExc, val |-> [y EXCEPT ![2] = Max(y[2], 0)]]
      [] fn = "flip_x2"   -> [exc |-> NoExc, val |-> [y EXCEPT ![2] = 0 - y[2]]]
      [] fn = "strict_x2" -> IF y[2] < 0
                             THEN [exc |-> "ValueError", val |-> None]
                             ELSE [exc |-> NoExc, val |-> y]

(* The function solve hands to the integrator:
   lambda t, y: self.governing_equations(t, y, **high_level_models).
   Calling None raises TypeError; the equations read all three models, so a
   missing model raises AttributeError; singular_ode has a singularity where
   the relative position x3 - x1 is not positive (finite |-> FALSE). *)
Fun(gov, models, t, y) ==
    IF gov = None THEN [exc |-> "TypeError", finite |-> FALSE, dy |-> None]
    ELSE IF \E k \in DOMAIN models : models[k] = None
    THEN [exc |-> "AttributeError", finite |-> FALSE, dy |-> None]
    ELSE [exc |-> NoExc,
          finite |-> ~(gov.fn = "singular_ode" /\ y[3] - y[1] <= 0),
          dy |-> <<y[2], -1, y[4], -1, y[4] - y[2]>>]

(* scipy.integrate.solve_ivp(fun, t_span=[t_start, t_end], y0, max_step), as
   solve calls it: the method is the integrator's default, an explicit
   Runge-Kutta method.  The integrator evaluates fun at the start point; it
   then steps by at most max_step, evaluating fun at the end of each step.
   An exception of fun passes through; a non-finite derivative makes the
   step fail, and the integrator then returns the points accepted so far
   with status -1 and success False.  y has one row per state component. *)
RECURSIVE Integrate(_, _, _, _, _, _, _)
Integrate(gov, models, t_end, max_step, t, ts, cols) ==
    IF t = t_end
    THEN [exc |-> NoExc, t |-> ts, y |-> Transpose(cols), status |-> 0,
          success |-> TRUE, method |-> "RK45"]
    ELSE LET tn == Min(t + max_step, t_end)
             y  == cols[Len(cols)]
             f  == Fun(gov, models, t, y)
             yn == [i \in 1..Len(y) |-> y[i] + (tn - t) * f.dy[i]]
             fn == Fun(gov, models, tn, yn)
         IN  IF fn.exc # NoExc
             THEN [exc |-> fn.exc]
             ELSE IF ~fn.finite
             THEN [exc |-> NoExc, t |-> ts, y |-> Transpose(cols), status |-> -1,
                   success |-> FALSE, method |-> "RK45"]
             ELSE Integrate(gov, models, t_end, max_step, tn,
                            Append(ts, tn), Append(cols, yn))

\* an integrator that reports an exception of fun as a failed status
solve_ivp_swallowing(gov, models, t_start, t_end, y0, max_step) ==
    LET f0 == Fun(gov, models, t_start, y0)
    IN  IF f0.exc # NoExc \/ (t_start # t_end /\ ~f0.finite)
        THEN [exc |-> NoExc, t |-> <<t_start>>, y |-> Transpose(<<y0>>),
              status |-> -1, success |-> FALSE, method |-> "RK45"]
        ELSE Integrate(gov, models, t_end, max_step, t_start, <<t_start>>, <<y0>>)

solve_ivp(gov, models, t_start, t_end, y0, max_step) ==
    LET f0 == Fun(gov, models, t_start, y0)
    IN  IF f0.exc # NoExc
        THEN [exc |-> f0.exc]
        ELSE IF t_start # t_end /\ ~f0.finite
        THEN [exc |-> NoExc, t |-> <<t_start>>, y |-> Transpose(<<y0>>),
              status |-> -1, success |-> FALSE, method |-> "RK45"]
        ELSE Integrate(gov, models, t_end, max_step, t_start, <<t_start>>, <<y0>>)

----------------------------------------------------------------------------
(* UnifiedModel *)

(* [pipeline(y) for y in self.raw_solution.T]: the columns in order; the
   first raising call ends the comprehension. *)
RECURSIVE MapColumns(_, _, _, _, _)
MapColumns(entry, cols, j, out, calls) ==
    IF j > Len(cols)
    THEN [exc |-> NoExc, val |-> out, calls |-> calls]
    ELSE LET r == Pipeline(entry.val, cols[j])
             c == Append(calls, [name |-> entry.key, arg |-> cols[j]])
         IN  IF r.exc # NoExc
             THEN [exc |-> r.exc, val |-> out, calls |-> c]
             ELSE MapColumns(entry, cols, j + 1, Append(out, r.val), c)

(* UnifiedModel._apply_pipeline, from pipeline number k on: each pipeline
   maps the columns of the current raw_solution, and the transposed result
   is assigned to raw_solution before the next pipeline runs. *)
RECURSIVE ApplyPipelineFrom(_, _, _, _)
ApplyPipelineFrom(pipelines, k, raw, calls) ==
    IF k > Len(pipelines)
    THEN [exc |-> NoExc, raw_solution |-> raw, calls |-> calls]
    ELSE LET m == MapColumns(pipelines[k], Transpose(raw), 1, <<>>, calls)
         IN  IF m.exc # NoExc
             THEN [exc |-> m.exc, raw_solution |-> raw, calls |-> m.calls]
             ELSE ApplyPipelineFrom(pipelines, k + 1, Transpose(m.val), m.calls)

Reverse(q) == [i \in 1..Len(q) |-> q[Len(q) + 1 - i]]

_apply_pipeline_untransposed(pipelines, raw) ==
    LET r == ApplyPipelineFrom(pipelines, 1, raw, <<>>)
    IN  IF pipelines = <<>> THEN r
        ELSE [r EXCEPT !.raw_solution = Transpose(@)]

_apply_pipeline_reversed(pipelines, raw) ==
    ApplyPipelineFrom(Reverse(pipelines), 1, raw, <<>>)

_apply_pipeline(pipelines, raw) == ApplyPipelineFrom(pipelines, 1, raw, <<>>)

UnifiedInit ==
    /\ mechanical_model = None
    /\ electrical_model = None
    /\ coupling_model = None
    /\ governing_equations = None
    /\ raw_solution = None
    /\ post_processing_pipeline = <<>>
    /\ time = None
    /\ psoln = None
    /\ pipeline_calls = <<>>

set_mechanical_model(model_) ==
    /\ mechanical_model' = model_
    /\ ret' = Returned("set", Self)
    /\ UNCHANGED <<electrical_model, coupling_model, governing_equations,
                   raw_solution, post_processing_pipeline, time, psoln,
                   pipeline_calls>>
    /\ UNCHANGED non_unified_vars

set_electrical_model(model_) ==
    /\ electrical_model' = model_
    /\ ret' = Returned("set", Self)
    /\ UNCHANGED <<mechanical_model, coupling_model, governing_equations,
                   raw_solution, post_processing_pipeline, time, psoln,
                   pipeline_calls>>
    /\ UNCHANGED non_unified_vars

set_coupling_model(model_) ==
    /\ coupling_model' = model_
    /\ ret' = Returned("set", Self)
    /\ UNCHANGED <<mechanical_model, electrical_model, governing_equations,
                   raw_solution, post_processing_pipeline, time, psoln,
                   pipeline_calls>>
    /\ UNCHANGED non_unified_vars

set_governing_equations(equations) ==
    /\ governing_equations' = equations
    /\ ret' = Returned("set", Self)
    /\ UNCHANGED <<mechanical_model, electrical_model, coupling_model,
                   raw_solution, post_processing_pipeline, time, psoln,
                   pipeline_calls>>
    /\ UNCHANGED non_unified_vars

set_post_processing_pipeline(pipeline, name) ==
    /\ post_processing_pipeline' = DictSet(post_processing_pipeline, name, pipeline)
    /\ ret' = Returned("set", Self)
    /\ UNCHANGED <<mechanical_model, electrical_model, coupling_model,
                   governing_equations, raw_solution, time, psoln,
                   pipeline_calls>>
    /\ UNCHANGED non_unified_vars

\* a solve that runs no pipeline and forgets the registered ones
solve_dropping_pipelines(t_start, t_end, y0, t_max_step, method) ==
    \E p \in {solve_ivp(governing_equations,
                         [mechanical_model |-> mechanical_model,
                          electrical_model |-> electrical_model,
                          coupling_model   |-> coupling_model],
                         t_start, t_end, y0, t_max_step)} :
       /\ UNCHANGED non_unified_vars
       /\ UNCHANGED <<mechanical_model, electrical_model, coupling_model,
                      governing_equations>>
       /\ pipeline_calls' = <<>>
       /\ IF p.exc # NoExc
          THEN /\ ret' = Raised("solve", p.exc)
               /\ psoln' = None
               /\ UNCHANGED <<raw_solution, post_processing_pipeline, time>>
          ELSE /\ ret' = Returned("solve", None)
               /\ psoln' = [t |-> p.t, y |-> p.y, status |-> p.status,
                            success |-> p.success, method |-> p.method]
               /\ time' = Arr(p.t)
               /\ raw_solution' = Arr(p.y)
               /\ post_processing_pipeline' = <<>>

solve(t_start, t_end, y0, t_max_step, method) ==
    LET high_level_models == [mechanical_model |-> mechanical_model,
                              electrical_model |-> electrical_model,
                              coupling_model   |-> coupling_model]
    IN  \E p \in {solve_ivp(governing_equations, high_level_models,
                            t_start, t_end, y0, t_max_step)} :
          IF p.exc # NoExc
          THEN /\ UNCHANGED non_unified_vars
               /\ ret' = Raised("solve", p.exc)
               /\ psoln' = None
               /\ pipeline_calls' = <<>>
               /\ UNCHANGED <<mechanical_model, electrical_model, coupling_model,
                              governing_equations, raw_solution,
                              post_processing_pipeline, time>>
          ELSE \E a \in {_apply_pipeline(post_processing_pipeline, p.y)} :
                 /\ UNCHANGED non_unified_vars
                 /\ time' = Arr(p.t)
                 /\ raw_solution' = Arr(a.raw_solution)
                 /\ psoln' = [t |-> p.t, y |-> p.y, status |-> p.status,
                              success |-> p.success, method |-> p.method]
                 /\ pipeline_calls' = a.calls
                 /\ ret' = IF a.exc # NoExc THEN Raised("solve", a.exc)
                           ELSE Returned("solve", None)
                 /\ UNCHANGED <<mechanical_model, electrical_model,
                                coupling_model, governing_equations,
                                post_processing_pipeline>>

(* unified_model.utils.utils.parse_output_expression(t, raw_solution,
   **kwargs): x<i> names row i of raw_solution and t the time array; every
   keyword becomes a column of the returned table, in keyword order; an
   unknown symbol is an undefined name. *)
SymbolRow == [x1 |-> 1, x2 |-> 2, x3 |-> 3, x4 |-> 4, x5 |-> 5]

SymbolKnown(sym, raw) ==
    sym = "t" \/ (sym \in DOMAIN SymbolRow /\ SymbolRow[sym] <= Len(raw))

SymbolValue(sym, t, raw) == IF sym = "t" THEN t ELSE raw[SymbolRow[sym]]

EvalExpression(e, t, raw) ==
    IF e.op = "sym" THEN SymbolValue(e.l, t, raw)
    ELSE [j \in 1..Len(t) |-> SymbolValue(e.l, t, raw)[j] - SymbolValue(e.r, t, raw)[j]]

parse_output_expression(t, raw, kwargs) ==
    IF t = None \/ raw = None
    THEN [exc |-> "TypeError", val |-> None]
    ELSE IF \E i \in 1..Len(kwargs) :
               ~(SymbolKnown(kwargs[i].val.l, raw.a) /\ SymbolKnown(kwargs[i].val.r, raw.a))
    THEN [exc |-> "NameError", val |-> None]
    ELSE [exc |-> NoExc,
          val |-> [columns |-> [i \in 1..Len(kwargs) |->
                      [key |-> kwargs[i].key,
                       val |-> EvalExpression(kwargs[i].val, t.a, raw.a)]]]]

get_result_raw(kwargs) ==
    LET r == parse_output_expression(time, IF psoln = None THEN raw_solution
                                           ELSE Arr(psoln.y), kwargs)
    IN  /\ ret' = [op |-> "get_result", exc |-> r.exc, val |-> r.val]
        /\ UNCHANGED unified_vars
        /\ UNCHANGED non_unified_vars

get_result(kwargs) ==
    LET r == parse_output_expression(time, raw_solution, kwargs)
    IN  /\ ret' = [op |-> "get_result", exc |-> r.exc, val |-> r.val]
        /\ UNCHANGED unified_vars
        /\ UNCHANGED non_unified_vars

UnifiedNext ==
    \/ \E m \in MechanicalModels : set_mechanical_model(m)
    \/ \E m \in ElectricalModels : set_electrical_model(m)
    \/ \E m \in CouplingModels : set_coupling_model(m)
    \/ \E g \in GoverningEquations : set_governing_equations(g)
    \/ \E f \in PipelineFunctions, n \in PipelineNames :
          set_post_processing_pipeline(f, n)
    \/ \E t_start \in StartTimes, y0 \in InitialStates,
          t_max_step \in StepSizes, method \in Methods :
          \E t_end \in t_start..MaxTime :
             solve(t_start, t_end, y0, t_max_step, method)
    \/ \E kwargs \in ResultQueries : get_result(kwargs)

----------------------------------------------------------------------------
(* ElectricalSystemEvaluator (unified_model.evaluate), without time warping
   and without clipping of the target *)

\* at most MaxFits fit calls are made on one evaluator
MaxFits == 2

TargetTimes == {<<1, 2, 3>>}

TargetSignals == {<<1, 2, 1>>, <<0, 2, 4>>}

\* predicted series: on the target's time base, or on a coarser one
Predictions ==
    {[emf |-> e, time |-> <<1, 2, 3>>] : e \in {<<1, 2, 3>>, <<0, 4, 0>>, <<2, 2, 6>>}}
    \cup {[emf |-> e, time |-> <<1, 3>>] : e \in {<<0, 4>>, <<6, 2>>}}
    \cup {[emf |-> <<2, 4>>, time |-> <<2, 3>>]}
    \cup {[emf |-> <<1, 2, 3, 4, 5, 6, 5, 4, 3>>, time |-> <<1, 2, 3, 4, 5, 6, 7, 8, 9>>]}

\* the series of test_score: nine samples at the times 1..9
ExampleTarget ==
    [emf |-> <<1, 2, 3, 4, 5, 4, 3, 2, 1>>, time |-> <<1, 2, 3, 4, 5, 6, 7, 8, 9>>]

ExamplePrediction ==
    [emf |-> <<1, 2, 3, 4, 5, 6, 5, 4, 3>>, time |-> <<1, 2, 3, 4, 5, 6, 7, 8, 9>>]

Targets ==
    {[emf |-> e, time |-> t] : e \in TargetSignals, t \in TargetTimes} \cup {ExampleTarget}

MetricNames == {"mean", "max_value"}

MetricFunctions == {"mean_both", "max_both", "bias"}

\* the keyword arguments of score: every dict of at most two named metrics
MetricKwargs ==
    {<<>>}
    \cup {<<[key |-> n, val |-> f]>> : n \in MetricNames, f \in MetricFunctions}
    \cup {m \in {<<[key |-> n1, val |-> f1], [key |-> n2, val |-> f2]>> :
                     n1 \in MetricNames, n2 \in MetricNames,
                     f1 \in MetricFunctions, f2 \in MetricFunctions} :
            m[1].key # m[2].key}

RECURSIVE SumSeq(_)
SumSeq(q) == IF q = <<>> THEN 0 ELSE q[1] + SumSeq(Tail(q))

RECURSIVE MaxSeq(_)
MaxSeq(q) == IF Len(q) = 1 THEN q[1] ELSE Max(q[1], MaxSeq(Tail(q)))

\* metrics that look at the prediction alone
Metric_of_prediction(fn, arr_predict, arr_target) ==
    CASE fn = "mean_both" -> [num |-> SumSeq(arr_predict), den |-> Len(arr_predict)]
      [] fn = "max_both"  -> [num |-> MaxSeq(arr_predict), den |-> 1]
      [] fn = "bias"      -> [num |-> SumSeq(arr_predict), den |-> 1]

(* A metric function metric(arr_predict, arr_target); its result is the
   rational num/den.  mean_both is np.mean([p, t]), max_both is
   np.max([p, t]), bias is sum(p - t). *)
Metric(fn, arr_predict, arr_target) ==
    CASE fn = "mean_both" -> [num |-> SumSeq(arr_predict) + SumSeq(arr_target),
                              den |-> Len(arr_predict) + Len(arr_target)]
      [] fn = "max_both"  -> [num |-> Max(MaxSeq(arr_predict), MaxSeq(arr_target)),
                              den |-> 1]
      [] fn = "bias"      -> [num |-> SumSeq(arr_predict) - SumSeq(arr_target),
                              den |-> 1]

(* Linear interpolation of the samples (xp, fp), xp increasing, at x; the end
   values are held outside the sampled range. *)
Interp(x, xp, fp) ==
    IF x <= xp[1] THEN fp[1]
    ELSE IF x >= xp[Len(xp)] THEN fp[Len(xp)]
    ELSE LET k == CHOOSE k \in 1..(Len(xp) - 1) : xp[k] <= x /\ x < xp[k + 1]
         IN  fp[k] + ((fp[k + 1] - fp[k]) * (x - xp[k])) \div (xp[k + 1] - xp[k])

\* the predicted series resampled onto the time base t
Resample(emf, t_emf, t) == [i \in 1..Len(t) |-> Interp(t[i], t_emf, emf)]

EvaluatorInit ==
    /\ \E target \in Targets :
          emf_target = Arr(target.emf) /\ time_target = Arr(target.time)
    /\ emf_predict = None
    /\ time_predict = None
    /\ emf_target_ = None
    /\ emf_predict_ = None
    /\ time_ = None
    /\ fit_calls = 0

NoEvaluator ==
    /\ emf_target = None
    /\ time_target = None
    /\ emf_predict = None
    /\ time_predict = None
    /\ emf_target_ = None
    /\ emf_predict_ = None
    /\ time_ = None
    /\ fit_calls = 0

\* a fit that appends to the aligned series of the earlier fits
_fit_accumulate(emf, t_emf) ==
    /\ emf_predict' = Arr(emf)
    /\ time_predict' = Arr(t_emf)
    /\ time_' = IF time_ = None THEN time_target
                ELSE Arr(time_.a \o time_target.a)
    /\ emf_target_' = IF emf_target_ = None THEN emf_target
                      ELSE Arr(emf_target_.a \o emf_target.a)
    /\ emf_predict_' = IF emf_predict_ = None
                       THEN Arr(Resample(emf, t_emf, time_target.a))
                       ELSE Arr(emf_predict_.a \o Resample(emf, t_emf, time_target.a))
    /\ fit_calls' = fit_calls + 1
    /\ UNCHANGED <<emf_target, time_target>>

(* _fit: store the predicted inputs, then replace the aligned series by the
   prediction resampled onto the target's time base and the target itself *)
_fit(emf, t_emf) ==
    /\ emf_predict' = Arr(emf)
    /\ time_predict' = Arr(t_emf)
    /\ time_' = time_target
    /\ emf_target_' = emf_target
    /\ emf_predict_' = Arr(Resample(emf, t_emf, time_target.a))
    /\ fit_calls' = fit_calls + 1
    /\ UNCHANGED <<emf_target, time_target>>

fit(emf, t_emf) ==
    /\ fit_calls < MaxFits
    /\ _fit(emf, t_emf)
    /\ ret' = Returned("fit", None)
    /\ UNCHANGED non_evaluator_vars

fit_transform(emf, t_emf) ==
    /\ fit_calls < MaxFits
    /\ _fit(emf, t_emf)
    /\ ret' = Returned("fit_transform", [time_ |-> time_', emf_predict_ |-> emf_predict_'])
    /\ UNCHANGED non_evaluator_vars

IsFitted == emf_target_ # None /\ emf_predict_ # None /\ time_ # None

ScoreRecord(metrics, arr_predict, arr_target) ==
    [fields |-> [i \in 1..Len(metrics) |->
                    [key |-> metrics[i].key,
                     val |-> Metric(metrics[i].val, arr_predict, arr_target)]]]

score_unchecked(metrics) ==
    /\ ret' = IF IsFitted
              THEN Returned("score", ScoreRecord(metrics, emf_predict_.a, emf_target_.a))
              ELSE Returned("score", [fields |-> <<>>])
    /\ UNCHANGED evaluator_vars
    /\ UNCHANGED non_evaluator_vars

score_swapped(metrics) ==
    /\ ret' = IF IsFitted
              THEN Returned("score", ScoreRecord(metrics, emf_target_.a, emf_predict_.a))
              ELSE Raised("score", "NotFittedError")
    /\ UNCHANGED evaluator_vars
    /\ UNCHANGED non_evaluator_vars

score(metrics) ==
    /\ ret' = IF IsFitted
              THEN Returned("score", ScoreRecord(metrics, emf_predict_.a, emf_target_.a))
              ELSE Raised("score", "NotFittedError")
    /\ UNCHANGED evaluator_vars
    /\ UNCHANGED non_evaluator_vars

EvaluatorNext ==
    \/ \E p \in Predictions : fit(p.emf, p.time)
    \/ \E p \in Predictions : fit_transform(p.emf, p.time)
    \/ \E metrics \in MetricKwargs : score(metrics)

----------------------------------------------------------------------------
(* FluxDatabase (electrical_system/flux/utils.py) *)

Dict(d) == [d |-> d]

(* A column header is a sequence of whitespace-separated tokens; a token is
   the sequence of its '='-separated parts; a part is a text that may stand
   in single quotes. *)
Part(text) == [text |-> text, quoted |-> FALSE]

Quoted(text) == [text |-> text, quoted |-> TRUE]

Word(text) == <<Part(text)>>

\* the part as it stands in the header
PartText(part) == IF part.quoted THEN "'" \o part.text \o "'" ELSE part.text

\* part.replace("'", '')
PartUnquoted(part) == part.text

\* a .csv export: the time column in ms, then one flux column per header
CsvTwoParameters ==
    [time |-> <<0, 1000, 2000>>,
     columns |-> <<[header |-> <<Word("Flux"), <<Part("a"), Quoted("1")>>,
                                 <<Part("b"), Quoted("1")>>>>,
                    values |-> <<1, 2, 1>>],
                   [header |-> <<Word("Flux"), <<Part("b"), Quoted("2")>>,
                                 <<Part("a"), Quoted("1")>>>>,
                    values |-> <<3, 4, 3>>]>>]

CsvOneParameter ==
    [time |-> <<0, 1000, 2000>>,
     columns |-> <<[header |-> <<Word("Flux"), <<Part("a"), Part("1")>>>>,
                    values |-> <<1, 2, 1>>],
                   [header |-> <<Word("Flux"), <<Part("a"), Quoted("1")>>>>,
                    values |-> <<3, 4, 3>>],
                   [header |-> <<Word("Flux"), <<Part("a"), Quoted("2"), Part("x")>>>>,
                    values |-> <<5, 6, 5>>]>>]

\* the second column names a parameter the first one does not have
CsvMismatched ==
    [time |-> <<0, 1000, 2000>>,
     columns |-> <<[header |-> <<Word("Flux"), <<Part("a"), Quoted("1")>>>>,
                    values |-> <<1, 2, 1>>],
                   [header |-> <<Word("Flux"), <<Part("b"), Quoted("1")>>>>,
                    values |-> <<3, 4, 3>>]>>]

\* no header names a parameter
CsvNoParameters ==
    [time |-> <<0, 1000, 2000>>,
     columns |-> <<[header |-> <<Word("Flux")>>, values |-> <<1, 2, 1>>],
                   [header |-> <<Word("Flux"), Word("[Wb]")>>, values |-> <<3, 4, 3>>]>>]

Csvs == {CsvTwoParameters, CsvOneParameter, CsvMismatched, CsvNoParameters}

Velocities == {2}

ParameterNames == {"a", "b", "c"}

ParameterValues == {"1", "2"}

\* key_dict of add and kwargs of query: at most two named parameters, in
\* every order
KeyDicts ==
    {<<>>}
    \cup {<<[key |-> n, val |-> v]>> : n \in ParameterNames, v \in ParameterValues}
    \cup {k \in {<<[key |-> n1, val |-> v1], [key |-> n2, val |-> v2]>> :
                     n1 \in ParameterNames, n2 \in ParameterNames,
                     v1 \in ParameterValues, v2 \in ParameterValues} :
            k[1].key # k[2].key}

AddedValues == {<<7, 8, 7>>, <<9, 9, 9>>}

KeyLists == {<<"b", "a">>, <<"c">>}

FluxModelTypes == {"interp", "bogus"}

\* the parameters of a key dict, whatever their order
ParameterSet(key_dict) ==
    {<<key_dict[i].key, key_dict[i].val>> : i \in 1..Len(key_dict)}

RECURSIVE DictFromPairs(_, _)
DictFromPairs(pairs, d) ==
    IF pairs = <<>> THEN d
    ELSE DictFromPairs(Tail(pairs), DictSet(d, pairs[1].key, pairs[1].val))

(* FluxDatabase._extract_parameter_from_str: the tokens holding a '=' give
   the name (the text before the first '=') and the value (the text between
   the first and the second '=', single quotes removed) *)
_extract_parameter_from_str(str_) ==
    LET unprocessed_params == SelectSeq(str_, LAMBDA token : Len(token) >= 2)
    IN  DictFromPairs([i \in 1..Len(unprocessed_params) |->
                          [key |-> PartText(unprocessed_params[i][1]),
                           val |-> PartUnquoted(unprocessed_params[i][2])]], <<>>)

DictKeys(d) == [i \in 1..Len(d) |-> d[i].key]

\* an index that is built anew on every call
_create_index_rebuild(lut_, key_list) ==
    [exc |-> NoExc,
     lut |-> Dict(DictFromPairs([i \in 1..Len(key_list) |->
                                    [key |-> key_list[i], val |-> i - 1]], <<>>))]

(* FluxDatabase._create_index *)
_create_index(lut_, key_list) ==
    IF lut_ = None
    THEN [exc |-> NoExc,
          lut |-> Dict(DictFromPairs([i \in 1..Len(key_list) |->
                                         [key |-> key_list[i], val |-> i - 1]], <<>>))]
    ELSE [exc |-> "ValueError", lut |-> lut_]

(* FluxDatabase._make_db_key: one slot per indexed parameter, filled at the
   position the index gives; an unknown name and an unfilled slot are key
   errors.  A filled slot is [v |-> value]. *)
RECURSIVE FillKey(_, _, _)
FillKey(lut_, kwargs, db_key) ==
    IF kwargs = <<>> THEN [exc |-> NoExc, val |-> db_key]
    ELSE IF ~DictHas(lut_.d, kwargs[1].key) THEN [exc |-> "KeyError", val |-> None]
    ELSE FillKey(lut_, Tail(kwargs),
                 [db_key EXCEPT ![DictGet(lut_.d, kwargs[1].key) + 1] =
                                    [v |-> kwargs[1].val]])

_make_db_key_unordered(lut_, kwargs) ==
    IF \E i \in 1..Len(kwargs) : ~DictHas(lut_.d, kwargs[i].key)
    THEN [exc |-> "KeyError", val |-> None]
    ELSE IF Len(kwargs) < Len(lut_.d)
    THEN [exc |-> "KeyError", val |-> None]
    ELSE [exc |-> NoExc, val |-> [i \in 1..Len(kwargs) |-> [v |-> kwargs[i].val]]]

_make_db_key(lut_, kwargs) ==
    LET r == FillKey(lut_, kwargs, [i \in 1..Len(lut_.d) |-> None])
    IN  IF r.exc # NoExc THEN r
        ELSE IF \E i \in 1..Len(r.val) : r.val[i] = None
        THEN [exc |-> "KeyError", val |-> None]
        ELSE r

\* an add that stores every value as a further entry
AddEntry_append(lut_, database_, key_dict, value) ==
    LET k == _make_db_key(lut_, key_dict)
    IN  IF k.exc # NoExc THEN [exc |-> k.exc, database |-> database_]
        ELSE [exc |-> NoExc,
              database |-> Append(database_, [key |-> k.val, val |-> value])]

(* FluxDatabase.add as a function of the database: the new database, or the
   key error of _make_db_key *)
AddEntry(lut_, database_, key_dict, value) ==
    LET k == _make_db_key(lut_, key_dict)
    IN  IF k.exc # NoExc THEN [exc |-> k.exc, database |-> database_]
        ELSE [exc |-> NoExc, database |-> DictSet(database_, k.val, value)]

(* The loop of _produce_database over the data columns from column i on *)
RECURSIVE AddColumns(_, _, _, _, _)
AddColumns(lut_, columns, i, database_, added_) ==
    IF i > Len(columns)
    THEN [exc |-> NoExc, database |-> database_, added |-> added_]
    ELSE LET key_dict == _extract_parameter_from_str(columns[i].header)
             r == AddEntry(lut_, database_, key_dict, columns[i].values)
         IN  IF r.exc # NoExc
             THEN [exc |-> r.exc, database |-> database_, added |-> added_]
             ELSE AddColumns(lut_, columns, i + 1, r.database,
                             DictSet(added_, ParameterSet(key_dict), columns[i].values))

(* FluxDatabase._produce_database, called by __init__ with lut None and an
   empty database *)
_produce_database(raw, fixed_velocity) ==
    LET t == [i \in 1..Len(raw.time) |-> raw.time[i] \div 1000]
        index == _create_index(None, DictKeys(_extract_parameter_from_str(raw.columns[1].header)))
        r == AddColumns(index.lut, raw.columns, 1, <<>>, <<>>)
    IN  [exc |-> IF index.exc # NoExc THEN index.exc ELSE r.exc,
         time |-> t,
         z |-> [i \in 1..Len(t) |-> t[i] * fixed_velocity],
         lut |-> index.lut,
         database |-> r.database,
         added |-> r.added]

NoFluxDatabase ==
    /\ raw_database = None
    /\ velocity = None
    /\ flux_time = None
    /\ z = None
    /\ lut = None
    /\ database = <<>>
    /\ added = <<>>

(* FluxDatabase.__init__; a constructor that raises leaves the caller without
   a database *)
FluxInit ==
    \E raw \in Csvs, fixed_velocity \in Velocities :
       \E p \in {_produce_database(raw, fixed_velocity)} :
          IF p.exc # NoExc
          THEN NoFluxDatabase /\ ret = Raised("__init__", p.exc)
          ELSE /\ raw_database = raw
               /\ velocity = Arr(fixed_velocity)
               /\ flux_time = Arr(p.time)
               /\ z = Arr(p.z)
               /\ lut = p.lut
               /\ database = p.database
               /\ added = p.added
               /\ ret = Returned("__init__", None)

FluxDatabaseExists == raw_database # None

add(key_dict, value) ==
    /\ FluxDatabaseExists
    /\ \E r \in {AddEntry(lut, database, key_dict, value)} :
          /\ database' = r.database
          /\ added' = IF r.exc # NoExc THEN added
                      ELSE DictSet(added, ParameterSet(key_dict), value)
          /\ ret' = IF r.exc # NoExc THEN Raised("add", r.exc)
                    ELSE Returned("add", None)
    /\ UNCHANGED <<raw_database, velocity, flux_time, z, lut>>
    /\ UNCHANGED non_flux_vars

\* a lookup that answers a missing key with an empty curve
QueryResult_default(lut_, database_, kwargs) ==
    LET k == _make_db_key(lut_, kwargs)
    IN  IF k.exc # NoExc THEN [exc |-> k.exc, val |-> None]
        ELSE IF ~DictHas(database_, k.val) THEN [exc |-> NoExc, val |-> Arr(<<>>)]
        ELSE [exc |-> NoExc, val |-> Arr(DictGet(database_, k.val))]

(* FluxDatabase.query as a function: return self.database[db_key] *)
QueryResult(lut_, database_, kwargs) ==
    LET k == _make_db_key(lut_, kwargs)
    IN  IF k.exc # NoExc THEN [exc |-> k.exc, val |-> None]
        ELSE IF ~DictHas(database_, k.val) THEN [exc |-> "KeyError", val |-> None]
        ELSE [exc |-> NoExc, val |-> Arr(DictGet(database_, k.val))]

query(kwargs) ==
    /\ FluxDatabaseExists
    /\ \E r \in {QueryResult(lut, database, kwargs)} :
          ret' = [op |-> "query", exc |-> r.exc, val |-> r.val]
    /\ UNCHANGED flux_vars
    /\ UNCHANGED non_flux_vars

(* FluxDatabase.query_to_model: the model class is looked up first, then the
   curve is queried and handed to the model class with self.z *)
query_to_model(flux_model_type, coil_center, mm, kwargs) ==
    /\ FluxDatabaseExists
    /\ \E r \in {QueryResult(lut, database, kwargs)} :
          ret' = IF flux_model_type \notin {"interp", "unispline"}
                 THEN Raised("query_to_model", "KeyError")
                 ELSE IF r.exc # NoExc THEN Raised("query_to_model", r.exc)
                 ELSE Returned("query_to_model",
                               [flux_model |-> [cls |-> flux_model_type, z |-> z.a,
                                                phi |-> r.val.a,
                                                coil_center |-> coil_center, mm |-> mm],
                                dflux_model |-> [derivative_of |-> flux_model_type,
                                                 z |-> z.a, phi |-> r.val.a,
                                                 coil_center |-> coil_center, mm |-> mm]])
    /\ UNCHANGED flux_vars
    /\ UNCHANGED non_flux_vars

itervalues ==
    /\ FluxDatabaseExists
    /\ ret' = Returned("itervalues", [items |-> database])
    /\ UNCHANGED flux_vars
    /\ UNCHANGED non_flux_vars

\* a call of _create_index on a constructed database
create_index(key_list) ==
    /\ FluxDatabaseExists
    /\ \E r \in {_create_index(lut, key_list)} :
          /\ lut' = r.lut
          /\ ret' = IF r.exc # NoExc THEN Raised("_create_index", r.exc)
                    ELSE Returned("_create_index", None)
    /\ UNCHANGED <<raw_database, velocity, flux_time, z, database, added>>
    /\ UNCHANGED non_flux_vars

FluxNext ==
    \/ \E key_dict \in KeyDicts, value \in AddedValues : add(key_dict, value)
    \/ \E kwargs \in KeyDicts : query(kwargs)
    \/ \E t \in FluxModelTypes, kwargs \in KeyDicts : query_to_model(t, 0, 10, kwargs)
    \/ itervalues
    \/ \E key_list \in KeyLists : create_index(key_list)

----------------------------------------------------------------------------
(* ElectricalModel (electrical_model.py) *)

\* resistances are 0..MaxResistance ohms, or infinite (the coil's default)
MaxResistance == 2

\* open-circuit emfs are -MaxEmf..MaxEmf volts
MaxEmf == 2

\* np.inf
Inf == [inf |-> TRUE]

Resistances == {[R |-> r] : r \in 0..MaxResistance}

\* a load model is an object with a resistance R
LoadModels == Resistances

CoilResistances == {r.R : r \in Resistances}

FluxModelPairs == {[flux |-> [fn |-> "linear"], dflux |-> [fn |-> "constant"]],
                   [flux |-> [fn |-> "parabola"], dflux |-> [fn |-> "linear"]],
                   [flux |-> [fn |-> "edge"], dflux |-> [fn |-> "edge_slope"]]}

RECURSIVE Gcd(_, _)
Gcd(a, b) == IF b = 0 THEN a ELSE Gcd(b, a % b)

Abs(a) == IF a < 0 THEN 0 - a ELSE a

\* the number n/d, d # 0, in lowest terms with a positive denominator
Rational(n, d) ==
    LET g == Gcd(Abs(n), Abs(d))
        sign == IF d < 0 THEN 0 - 1 ELSE 1
    IN  [num |-> sign * (n \div g), den |-> sign * (d \div g)]

(* x / y for a rational x and an integer or infinite y: a zero divisor
   raises, an infinite one gives zero *)
Divide(x, y) ==
    IF y = Inf THEN [exc |-> NoExc, val |-> Rational(0, 1)]
    ELSE IF y.num = 0 THEN [exc |-> "ZeroDivisionError", val |-> None]
    ELSE [exc |-> NoExc, val |-> Rational(x.num * y.den, x.den * y.num)]

\* r_load + r_coil
AddResistance(r_load, r_coil) ==
    IF r_coil = Inf THEN Inf ELSE Rational(r_load + r_coil.num, 1)

\* an attribute the constructor does not assign
Absent == [absent |-> TRUE]

ElectricalInit ==
    /\ flux_model = None
    /\ dflux_model = Absent
    /\ coil_resistance = Inf
    /\ load_model = None
    /\ flux_gradient = None
    /\ precompute_gradient = FALSE

NoElectricalModel ==
    /\ flux_model = None
    /\ dflux_model = None
    /\ coil_resistance = None
    /\ load_model = None
    /\ flux_gradient = None
    /\ precompute_gradient = FALSE

set_flux_model(flux, dflux) ==
    /\ flux_model' = flux
    /\ dflux_model' = dflux
    /\ ret' = Returned("set_flux_model", None)
    /\ UNCHANGED <<coil_resistance, load_model, flux_gradient,
                   precompute_gradient>>
    /\ UNCHANGED non_electrical_vars

set_coil_resistance(R) ==
    /\ coil_resistance' = Rational(R, 1)
    /\ ret' = Returned("set_coil_resistance", None)
    /\ UNCHANGED <<flux_model, dflux_model, load_model, flux_gradient,
                   precompute_gradient>>
    /\ UNCHANGED non_electrical_vars

set_load_model(load) ==
    /\ load_model' = load
    /\ ret' = Returned("set_load_model", None)
    /\ UNCHANGED <<flux_model, dflux_model, coil_resistance, flux_gradient,
                   precompute_gradient>>
    /\ UNCHANGED non_electrical_vars

(* ElectricalModel.get_current as a function of the model's attributes *)
Current_load_voltage(load, r_coil, emf_oc) ==
    IF load = None THEN [exc |-> NoExc, val |-> Rational(0, 1)]
    ELSE Divide(Rational(emf_oc * load.R, 1), AddResistance(load.R, r_coil))

Current(load, r_coil, emf_oc) ==
    IF load = None THEN [exc |-> NoExc, val |-> Rational(0, 1)]
    ELSE LET r_load == load.R
             v_load == Divide(Rational(emf_oc * r_load, 1), AddResistance(r_load, r_coil))
         IN  IF v_load.exc # NoExc THEN v_load
             ELSE Divide(v_load.val, Rational(r_load, 1))

get_current(emf_oc) ==
    /\ \E r \in {Current(load_model, coil_resistance, emf_oc)} :
          ret' = [op |-> "get_current", exc |-> r.exc, val |-> r.val]
    /\ UNCHANGED electrical_vars
    /\ UNCHANGED non_electrical_vars

\* -np.inf and np.nan
NegInf == [neginf |-> TRUE]

NaN == [nan |-> TRUE]

\* positions are whole multiples of the finite-difference step
delta_x == 1

\* positions run up to MaxPosition steps
MaxPosition == 3

\* the edge of the domain of the "edge" flux model
EdgePosition == 1

MagnetVelocities == {0 - 1, 0, 2}

MagnetPositions == (0 - 1)..MaxPosition

\* the y vectors handed to get_flux_gradient; the last one is too short
GradientStates ==
    {<<x1, 0, x3, 0, 0>> : x1 \in {0, 1}, x3 \in 0..MaxPosition} \cup {<<0, 0, 0, 0>>}

\* the functions a caller stores in flux_gradient
CachedGradients == {[fn |-> "constant"], [fn |-> "linear"]}

isfinite(x) == x \notin {Inf, NegInf, NaN}

isinf(x) == x \in {Inf, NegInf}

\* a - b in floating point: the difference of equal infinities is not a number
Minus(a, b) ==
    IF a = NaN \/ b = NaN THEN NaN
    ELSE IF a = Inf THEN (IF b = Inf THEN NaN ELSE Inf)
    ELSE IF a = NegInf THEN (IF b = NegInf THEN NaN ELSE NegInf)
    ELSE IF b = Inf THEN NegInf
    ELSE IF b = NegInf THEN Inf
    ELSE Rational(a.num * b.den - b.num * a.den, a.den * b.den)

\* a / k for a positive k
Over(a, k) == IF isfinite(a) THEN Rational(a.num, a.den * k) ELSE a

\* a * v for a finite v: zero times an infinity is not a number
Times(a, v) ==
    IF a = NaN THEN NaN
    ELSE IF isinf(a)
    THEN (IF v = 0 THEN NaN
          ELSE IF (v > 0) = (a = Inf) THEN Inf ELSE NegInf)
    ELSE Rational(a.num * v, a.den)

\* the value of a flux model, of a derivative or of a cached gradient at x
FunctionValue(f, x) ==
    CASE f.fn = "constant" -> Rational(2, 1)
      [] f.fn = "linear" -> Rational(2 * x, 1)
      [] f.fn = "parabola" -> Rational(x * x, 1)
      [] f.fn = "edge" -> IF x < EdgePosition THEN Rational(x, 1) ELSE Inf
      [] f.fn = "edge_slope" -> IF x < EdgePosition THEN Rational(1, 1) ELSE Inf

(* _gradient *)
_gradient(f, x) ==
    LET gradient == Over(Minus(FunctionValue(f, x + delta_x),
                               FunctionValue(f, x - delta_x)), 2 * delta_x)
    IN  IF isinf(gradient) THEN Rational(0, 1) ELSE gradient

\* model.precompute_gradient = flag, assigned by the caller
assign_precompute_gradient(flag) ==
    /\ precompute_gradient' = flag
    /\ ret' = Returned("precompute_gradient", None)
    /\ UNCHANGED <<flux_model, dflux_model, coil_resistance, load_model, flux_gradient>>
    /\ UNCHANGED non_electrical_vars

\* model.flux_gradient = gradient, assigned by the caller
assign_flux_gradient(gradient) ==
    /\ flux_gradient' = gradient
    /\ ret' = Returned("flux_gradient", None)
    /\ UNCHANGED <<flux_model, dflux_model, coil_resistance, load_model,
                   precompute_gradient>>
    /\ UNCHANGED non_electrical_vars

(* ElectricalModel.get_flux_gradient as a function of the model's attributes:
   unpacking a y that has not five components and calling an attribute that
   is None raise *)
FluxGradient(precompute, cached, flux, y) ==
    IF Len(y) # StateDim THEN [exc |-> "ValueError", val |-> None]
    ELSE IF precompute = TRUE
    THEN (IF cached = None THEN [exc |-> "TypeError", val |-> None]
          ELSE [exc |-> NoExc, val |-> FunctionValue(cached, y[3] - y[1])])
    ELSE IF flux = None THEN [exc |-> "TypeError", val |-> None]
    ELSE [exc |-> NoExc, val |-> _gradient(flux, y[3] - y[1])]

get_flux_gradient(y) ==
    /\ \E r \in {FluxGradient(precompute_gradient, flux_gradient, flux_model, y)} :
          ret' = [op |-> "get_flux_gradient", exc |-> r.exc, val |-> r.val]
    /\ UNCHANGED electrical_vars
    /\ UNCHANGED non_electrical_vars

\* an emf taken from the flux instead of its derivative
Emf_of_flux(dflux, flux, mag_pos, mag_vel) ==
    IF dflux = Absent THEN [exc |-> "AttributeError", val |-> None]
    ELSE IF flux = None THEN [exc |-> "TypeError", val |-> None]
    ELSE [exc |-> NoExc, val |-> Times(FunctionValue(flux, mag_pos), mag_vel)]

(* ElectricalModel.get_emf as a function of the model's attributes *)
Emf(dflux, flux, mag_pos, mag_vel) ==
    IF dflux = Absent THEN [exc |-> "AttributeError", val |-> None]
    ELSE IF dflux = None THEN [exc |-> "TypeError", val |-> None]
    ELSE [exc |-> NoExc, val |-> Times(FunctionValue(dflux, mag_pos), mag_vel)]

get_emf(mag_pos, mag_vel) ==
    /\ \E r \in {Emf(dflux_model, flux_model, mag_pos, mag_vel)} :
          ret' = [op |-> "get_emf", exc |-> r.exc, val |-> r.val]
    /\ UNCHANGED electrical_vars
    /\ UNCHANGED non_electrical_vars

ElectricalNext ==
    \/ \E m \in FluxModelPairs : set_flux_model(m.flux, m.dflux)
    \/ \E R \in CoilResistances : set_coil_resistance(R)
    \/ \E load \in LoadModels : set_load_model(load)
    \/ \E emf_oc \in (0 - MaxEmf)..MaxEmf : get_current(emf_oc)
    \/ \E flag \in BOOLEAN : assign_precompute_gradient(flag)
    \/ \E gradient \in CachedGradients : assign_flux_gradient(gradient)
    \/ \E y \in GradientStates : get_flux_gradient(y)
    \/ \E mag_pos \in MagnetPositions, mag_vel \in MagnetVelocities : get_emf(mag_pos, mag_vel)

----------------------------------------------------------------------------
(* UnifiedModel persistence (unified.py, save_to_disk and load_from_disk) *)

(* A path names an entry of the working directory, with or without a
   trailing slash.  An artifact file is [dir, prefix, stem]: the file
   prefix + stem + '.pkl' in the directory dir ("" is the working directory). *)
PathString(path) == IF path.slash THEN path.name \o "/" ELSE path.name

Paths == {[name |-> "m", slash |-> TRUE], [name |-> "m", slash |-> FALSE],
          [name |-> "n", slash |-> TRUE]}

EmptyDisk == [dirs |-> {}, others |-> {}, files |-> <<>>]

InitialDisks ==
    {EmptyDisk,
     [dirs |-> {"m"}, others |-> {}, files |-> <<>>],
     [dirs |-> {}, others |-> {"m"}, files |-> <<>>]}

\* os.path.exists(path)
exists(disk_, path) ==
    \/ path.name \in disk_.dirs
    \/ ~path.slash /\ path.name \in disk_.others

\* os.path.isdir(path)
isdir(disk_, path) == path.name \in disk_.dirs

\* os.makedirs(path)
makedirs(disk_, path) ==
    IF path.name \in disk_.dirs \cup disk_.others
    THEN [exc |-> "FileExistsError", disk |-> disk_]
    ELSE [exc |-> NoExc, disk |-> [disk_ EXCEPT !.dirs = @ \cup {path.name}]]

\* path + key + '.pkl'
component_path(path, key) ==
    IF path.slash THEN [dir |-> path.name, prefix |-> "", stem |-> key]
    ELSE [dir |-> "", prefix |-> path.name, stem |-> key]

\* self.__dict__.items()
Attributes ==
    <<[key |-> "mechanical_model", val |-> mechanical_model],
      [key |-> "electrical_model", val |-> electrical_model],
      [key |-> "coupling_model", val |-> coupling_model],
      [key |-> "governing_equations", val |-> governing_equations],
      [key |-> "raw_solution", val |-> raw_solution],
      [key |-> "post_processing_pipeline", val |-> post_processing_pipeline],
      [key |-> "time", val |-> time]>>

\* the loop of save_to_disk: cloudpickle.dump of every attribute
RECURSIVE DumpAll(_, _, _)
DumpAll(files, path, items) ==
    IF items = <<>> THEN files
    ELSE DumpAll(DictSet(files, component_path(path, items[1].key), items[1].val),
                 path, Tail(items))

\* a save that writes into whatever is there
SaveResult_overwrite(disk_, items, path) ==
    [exc |-> NoExc,
     disk |-> [dirs |-> disk_.dirs \cup {path.name}, others |-> disk_.others,
               files |-> DumpAll(disk_.files, path, items)]]

(* UnifiedModel.save_to_disk as a function of the file system *)
SaveResult(disk_, items, path) ==
    IF exists(disk_, path) THEN [exc |-> "FileExistsError", disk |-> disk_]
    ELSE LET made == makedirs(disk_, path)
         IN  IF made.exc # NoExc THEN made
             ELSE [exc |-> NoExc,
                   disk |-> [made.disk EXCEPT !.files = DumpAll(@, path, items)]]

save_to_disk(path) ==
    /\ \E r \in {SaveResult(disk, Attributes, path)} :
          /\ disk' = r.disk
          /\ ret' = IF r.exc # NoExc THEN Raised("save_to_disk", r.exc)
                    ELSE Returned("save_to_disk", None)
    /\ UNCHANGED <<unified_vars, evaluator_vars, flux_vars, electrical_vars, mechanical_vars>>

\* UnifiedModel(**kwargs): __init__ takes no argument besides self
UnifiedModel(kwargs) ==
    IF kwargs # <<>> THEN [exc |-> "TypeError", val |-> None]
    ELSE [exc |-> NoExc,
          val |-> <<[key |-> "mechanical_model", val |-> None],
                    [key |-> "electrical_model", val |-> None],
                    [key |-> "coupling_model", val |-> None],
                    [key |-> "governing_equations", val |-> None],
                    [key |-> "raw_solution", val |-> None],
                    [key |-> "post_processing_pipeline", val |-> <<>>],
                    [key |-> "time", val |-> None]>>]

(* glob(path + '*') and the key of every match: with a trailing slash the
   files of the directory, keyed by their stem; without one the entries of
   the working directory whose name starts with the path, the directory
   itself among them *)
GlobKeys(disk_, path) ==
    IF path.slash
    THEN [opens |-> TRUE,
          keys |-> SelectSeq(disk_.files, LAMBDA f : f.key.dir = path.name)]
    ELSE [opens |-> FALSE, keys |-> <<>>]

\* the loop of load_from_disk: unified_model.__dict__[key] = cloudpickle.load(f)
RECURSIVE LoadAll(_, _)
LoadAll(dict, entries) ==
    IF entries = <<>> THEN dict
    ELSE LoadAll(DictSet(dict, entries[1].key.stem, entries[1].val), Tail(entries))

(* UnifiedModel.load_from_disk as a function of the file system: the model
   is constructed first, with a name keyword argument *)
LoadResult(disk_, path) ==
    LET unified_model == UnifiedModel(<<[key |-> "name", val |-> None]>>)
        files == GlobKeys(disk_, path)
    IN  IF unified_model.exc # NoExc THEN unified_model
        ELSE IF ~isdir(disk_, path) THEN [exc |-> "FileNotFoundError", val |-> None]
        ELSE IF ~files.opens THEN [exc |-> "IsADirectoryError", val |-> None]
        ELSE [exc |-> NoExc, val |-> [attributes |-> LoadAll(unified_model.val, files.keys)]]

load_from_disk(path) ==
    /\ \E r \in {LoadResult(disk, path)} :
          ret' = [op |-> "load_from_disk", exc |-> r.exc, val |-> r.val]
    /\ UNCHANGED disk
    /\ UNCHANGED <<unified_vars, evaluator_vars, flux_vars, electrical_vars, mechanical_vars>>

PersistenceNext ==
    \/ \E model_ \in MechanicalModels : set_mechanical_model(model_)
    \/ \E equations \in GoverningEquations : set_governing_equations(equations)
    \/ \E path \in Paths : save_to_disk(path)
    \/ \E path \in Paths : load_from_disk(path)

----------------------------------------------------------------------------
(* ConstantDamper (mechanical_components/damper.py) *)

MaxDamping == 2

MaxVelocity == 2

DampingCoefficients == (-1)..MaxDamping

DamperVelocities == (-MaxVelocity)..MaxVelocity

NoDamper == damping_coefficient = None

(* ConstantDamper.__init__ *)
DamperInit ==
    \E c \in DampingCoefficients : damping_coefficient = Arr(c)

\* a damper whose force does not follow the sign of the velocity
DamperForce_unsigned(c, velocity_) ==
    c * (IF velocity_ < 0 THEN -velocity_ ELSE velocity_)

(* ConstantDamper.get_force as a function of the coefficient *)
DamperForce(c, velocity_) == c * velocity_

ConstantDamper_get_force(velocity_) ==
    /\ damping_coefficient # None
    /\ ret' = Returned("ConstantDamper.get_force",
                       DamperForce(damping_coefficient.a, velocity_))
    /\ UNCHANGED mechanical_vars
    /\ UNCHANGED non_mechanical_vars

----------------------------------------------------------------------------
(* MagneticSpring (mechanical_system/spring/magnetic_spring.py).  The force
   laws of spring/model.py are opaque functions: a call of f with arguments
   args is the term Call(f, args). *)

MaxPositions == 2

MODEL_DICT ==
    <<[key |-> "coulombs_unmodified", val |-> [fn |-> "coulombs_law"]],
      [key |-> "coulombs_modified",   val |-> [fn |-> "coulombs_law_modified"]],
      [key |-> "power_series_2",      val |-> [fn |-> "power_series_2"]],
      [key |-> "power_series_3",      val |-> [fn |-> "power_series_3"]],
      [key |-> "savgol_smoothing",    val |-> [fn |-> "savgol_smoothing"]]>>

ModelNames == {"coulombs_unmodified", "coulombs_modified", "savgol_smoothing", "bogus"}

(* A str argument is its text and whether it is the one object the
   interpreter keeps for the literal of that text; a string made at run time
   (read from a file, joined, formatted) has the text without being that
   object. *)
ModelTypes ==
    {[text |-> "iterative", interned |-> TRUE],
     [text |-> "iterative", interned |-> FALSE],
     [text |-> "interp", interned |-> TRUE],
     [text |-> "interp", interned |-> FALSE]}

\* s is 'literal'
Is(s, literal) == s.interned /\ s.text = literal

\* the samples read from the FEA file
FeaData ==
    {[z |-> <<1, 2, 3>>, force |-> <<9, 4, 1>>],
     [z |-> <<1, 2>>, force |-> <<4, 1>>]}

SpringPositions == {1, 2}

RECURSIVE SeqsUpTo(_, _)
SeqsUpTo(S, n) ==
    IF n = 0 THEN {<<>>}
    ELSE SeqsUpTo(S, n - 1) \cup {Append(q, x) : q \in SeqsUpTo(S, n - 1), x \in S}

PositionArrays == SeqsUpTo(SpringPositions, MaxPositions)

Call(f, args) == [call |-> f, args |-> args]

\* how many calls made the model what it is: 0 for a registered function
RECURSIVE CallDepth(_)
CallDepth(f) == IF "call" \in DOMAIN f THEN 1 + CallDepth(f.call) ELSE 0

\* an interpolating spring is followed through this many re-fits
MaxRefits == 1

(* get_model_function(MODEL_DICT, model): the function registered under the
   name, a KeyError for a name that is not registered *)
get_model_function(model_dict, model_) ==
    IF DictHas(model_dict, model_)
    THEN [exc |-> NoExc, model |-> DictGet(model_dict, model_)]
    ELSE [exc |-> "KeyError", model |-> None]

(* optimize.curve_fit: the fitted coefficient vector, or a RuntimeError when
   the least-squares iteration does not converge *)
curve_fit(f, xdata, ydata, converges) ==
    IF converges
    THEN [exc |-> NoExc, popt |-> Arr(<<[popt_of |-> f, xdata |-> xdata, ydata |-> ydata]>>)]
    ELSE [exc |-> "RuntimeError", popt |-> None]

(* MagneticSpring._fit_model_parameters as a function of the attributes *)
FitModelParameters(fea, model_, parameters, type, converges) ==
    IF Is(type, "iterative")
    THEN LET r == curve_fit(model_, fea.z, fea.force, converges)
         IN  IF r.exc # NoExc
             THEN [exc |-> r.exc, model |-> model_, model_parameters |-> parameters]
             ELSE [exc |-> NoExc, model |-> model_, model_parameters |-> r.popt]
    ELSE IF Is(type, "interp")
    THEN [exc |-> NoExc, model |-> Call(model_, <<fea.z, fea.force>>),
          model_parameters |-> parameters]
    ELSE [exc |-> NoExc, model |-> model_, model_parameters |-> parameters]

NoSpring ==
    /\ fea_dataframe = None
    /\ model = None
    /\ model_parameters = None
    /\ model_type = None

(* MagneticSpring.__init__; a constructor that raises leaves the caller
   without a spring *)
SpringInit ==
    \E fea \in FeaData, name \in ModelNames, type \in ModelTypes, converges \in BOOLEAN :
       \E m \in {get_model_function(MODEL_DICT, name)} :
          IF m.exc # NoExc
          THEN NoSpring /\ ret = Raised("__init__", m.exc)
          ELSE \E r \in {FitModelParameters(fea, m.model, None, type, converges)} :
                  IF r.exc # NoExc
                  THEN NoSpring /\ ret = Raised("__init__", r.exc)
                  ELSE /\ fea_dataframe = fea
                       /\ model = r.model
                       /\ model_parameters = r.model_parameters
                       /\ model_type = type
                       /\ ret = Returned("__init__", None)

SpringExists == fea_dataframe # None

_fit_model_parameters ==
    /\ SpringExists
    /\ Is(model_type, "interp") => CallDepth(model) <= MaxRefits
    /\ \E converges \in BOOLEAN :
          \E r \in {FitModelParameters(fea_dataframe, model, model_parameters,
                                       model_type, converges)} :
             /\ model' = r.model
             /\ model_parameters' = r.model_parameters
             /\ ret' = IF r.exc # NoExc THEN Raised("_fit_model_parameters", r.exc)
                       ELSE Returned("_fit_model_parameters", None)
    /\ UNCHANGED <<fea_dataframe, model_type, damper_vars>>
    /\ UNCHANGED non_mechanical_vars

_set_model(model_) ==
    /\ SpringExists
    /\ \E m \in {get_model_function(MODEL_DICT, model_)} :
          /\ model' = IF m.exc # NoExc THEN model ELSE m.model
          /\ ret' = IF m.exc # NoExc THEN Raised("_set_model", m.exc)
                    ELSE Returned("_set_model", None)
    /\ UNCHANGED <<fea_dataframe, model_parameters, model_type, damper_vars>>
    /\ UNCHANGED non_mechanical_vars

(* MagneticSpring.get_force as a function of the attributes; unpacking
   model_parameters that is None is a TypeError *)
SpringForce(model_, parameters, type, z_) ==
    IF Is(type, "interp") THEN [exc |-> NoExc, val |-> Call(model_, <<z_>>)]
    ELSE IF parameters = None THEN [exc |-> "TypeError", val |-> None]
    ELSE [exc |-> NoExc, val |-> Call(model_, <<z_>> \o parameters.a)]

MagneticSpring_get_force(z_) ==
    /\ SpringExists
    /\ \E r \in {SpringForce(model, model_parameters, model_type, z_)} :
          ret' = [op |-> "MagneticSpring.get_force", exc |-> r.exc, val |-> r.val]
    /\ UNCHANGED mechanical_vars
    /\ UNCHANGED non_mechanical_vars

(* MagneticSpring.get_force_array: [self.get_force(z) for z in z_array] *)
RECURSIVE SpringForceArray(_, _, _, _)
SpringForceArray(model_, parameters, type, z_array) ==
    IF z_array = <<>> THEN [exc |-> NoExc, val |-> <<>>]
    ELSE LET first == SpringForce(model_, parameters, type, z_array[1])
             rest == SpringForceArray(model_, parameters, type, Tail(z_array))
         IN  IF first.exc # NoExc THEN [exc |-> first.exc, val |-> None]
             ELSE IF rest.exc # NoExc THEN rest
             ELSE [exc |-> NoExc, val |-> <<first.val>> \o rest.val]

get_force_array(z_array) ==
    /\ SpringExists
    /\ \E r \in {SpringForceArray(model, model_parameters, model_type, z_array)} :
          ret' = [op |-> "get_force_array", exc |-> r.exc, val |-> r.val]
    /\ UNCHANGED mechanical_vars
    /\ UNCHANGED non_mechanical_vars

MechanicalNext ==
    \/ \E velocity_ \in DamperVelocities : ConstantDamper_get_force(velocity_)
    \/ \E z_ \in SpringPositions : MagneticSpring_get_force(z_)
    \/ \E z_array \in PositionArrays : get_force_array(z_array)
    \/ \E model_ \in ModelNames : _set_model(model_)
    \/ _fit_model_parameters

----------------------------------------------------------------------------
(* The scoring helpers of UnifiedModel (unified.py, score_mechanical_model
   and score_electrical_model).  The evaluator variables hold the evaluator
   the latest scoring call created; electrical_model, when set, refers to
   the ElectricalModel whose attributes are the electrical variables. *)

ScoringTargets == {target \in Targets : Len(target.time) = 3}

ScoringMetrics ==
    {<<>>, <<[key |-> "mean", val |-> "mean_both"], [key |-> "max_value", val |-> "max_both"]>>}

\* prediction_expr: the relative displacement, an unknown symbol
PredictionExprs == {Sub("x3", "x1"), Sym("x6")}

\* the optional keyword arguments the helpers pop, absent ones at their default
ScoringKwargs == [return_evaluator : BOOLEAN, closed_circuit : BOOLEAN]

(* An evaluator as a value: the constructor, fit and score *)
NewEvaluator(target) ==
    [emf_target |-> Arr(target.emf), time_target |-> Arr(target.time),
     emf_predict |-> None, time_predict |-> None,
     emf_target_ |-> None, emf_predict_ |-> None, time_ |-> None, fit_calls |-> 0]

EvaluatorFit(ev, emf, t_emf) ==
    [ev EXCEPT !.emf_predict = Arr(emf),
               !.time_predict = Arr(t_emf),
               !.time_ = ev.time_target,
               !.emf_target_ = ev.emf_target,
               !.emf_predict_ = Arr(Resample(emf, t_emf, ev.time_target.a)),
               !.fit_calls = @ + 1]

EvaluatorScore(ev, metrics) ==
    IF ev.emf_target_ # None /\ ev.emf_predict_ # None /\ ev.time_ # None
    THEN [exc |-> NoExc, val |-> ScoreRecord(metrics, ev.emf_predict_.a, ev.emf_target_.a)]
    ELSE [exc |-> "NotFittedError", val |-> None]

\* a helper that scores the evaluator as it was constructed
FitAndScore_unfitted(y_predict, time_predict_, target, metrics_dict, return_evaluator) ==
    LET evaluator == NewEvaluator(target)
        scores == EvaluatorScore(evaluator, metrics_dict)
    IN  IF scores.exc # NoExc
        THEN [exc |-> scores.exc, val |-> None, evaluator |-> evaluator]
        ELSE [exc |-> NoExc, evaluator |-> evaluator,
              val |-> IF return_evaluator
                      THEN [scores |-> scores.val, evaluator |-> evaluator]
                      ELSE scores.val]

(* The common tail of the two helpers: construct the evaluator, fit it with
   the prediction, score it, and return the scores, with the evaluator when
   return_evaluator is true *)
FitAndScore(y_predict, time_predict_, target, metrics_dict, return_evaluator) ==
    LET evaluator == EvaluatorFit(NewEvaluator(target), y_predict, time_predict_)
        scores == EvaluatorScore(evaluator, metrics_dict)
    IN  IF scores.exc # NoExc
        THEN [exc |-> scores.exc, val |-> None, evaluator |-> evaluator]
        ELSE [exc |-> NoExc, evaluator |-> evaluator,
              val |-> IF return_evaluator
                      THEN [scores |-> scores.val, evaluator |-> evaluator]
                      ELSE scores.val]

\* get_result(time='t', prediction=prediction_expr)
ScoringQuery(prediction_expr) ==
    <<[key |-> "time", val |-> Sym("t")], [key |-> "prediction", val |-> prediction_expr]>>

(* R_load/(R_load + R_coil) of the closed circuit: reading an attribute of a
   model or load that is None is an AttributeError *)
LoadVoltageFactor(model_, load, r_coil) ==
    IF model_ = None \/ load = None THEN [exc |-> "AttributeError", val |-> None]
    ELSE Divide(Rational(load.R, 1), AddResistance(load.R, r_coil))

\* emf_predict * factor
Scale(emf, factor) == [i \in 1..Len(emf) |-> (emf[i] * factor.num) \div factor.den]

ScoreMechanical(t, raw, target, metrics_dict, prediction_expr, kwargs) ==
    LET df_result == parse_output_expression(t, raw, ScoringQuery(prediction_expr))
    IN  IF df_result.exc # NoExc
        THEN [exc |-> df_result.exc, val |-> None, evaluator |-> None]
        ELSE FitAndScore(DictGet(df_result.val.columns, "prediction"),
                         DictGet(df_result.val.columns, "time"),
                         target, metrics_dict, kwargs.return_evaluator)

ScoreElectrical(t, raw, model_, load, r_coil, target, metrics_dict, prediction_expr, kwargs) ==
    LET df_result == parse_output_expression(t, raw, ScoringQuery(prediction_expr))
        factor == IF kwargs.closed_circuit THEN LoadVoltageFactor(model_, load, r_coil)
                  ELSE [exc |-> NoExc, val |-> Rational(1, 1)]
    IN  IF df_result.exc # NoExc
        THEN [exc |-> df_result.exc, val |-> None, evaluator |-> None]
        ELSE IF factor.exc # NoExc
        THEN [exc |-> factor.exc, val |-> None, evaluator |-> None]
        ELSE FitAndScore(Scale(DictGet(df_result.val.columns, "prediction"), factor.val),
                         DictGet(df_result.val.columns, "time"),
                         target, metrics_dict, kwargs.return_evaluator)

\* the evaluator variables as one value
EvaluatorValue ==
    [emf_target |-> emf_target, time_target |-> time_target,
     emf_predict |-> emf_predict, time_predict |-> time_predict,
     emf_target_ |-> emf_target_, emf_predict_ |-> emf_predict_, time_ |-> time_,
     fit_calls |-> fit_calls]

\* the helper's outcome r: its result in ret, next to the arguments of the
\* call, and its evaluator in the evaluator variables
Scored(op, args, r) ==
    /\ ret' = [op |-> op, exc |-> r.exc, val |-> r.val, args |-> args]
    /\ IF r.evaluator = None THEN UNCHANGED evaluator_vars
       ELSE /\ emf_target' = r.evaluator.emf_target
            /\ time_target' = r.evaluator.time_target
            /\ emf_predict' = r.evaluator.emf_predict
            /\ time_predict' = r.evaluator.time_predict
            /\ emf_target_' = r.evaluator.emf_target_
            /\ emf_predict_' = r.evaluator.emf_predict_
            /\ time_' = r.evaluator.time_
            /\ fit_calls' = r.evaluator.fit_calls
    /\ UNCHANGED <<unified_vars, flux_vars, electrical_vars, mechanical_vars, disk>>

score_mechanical_model(target, metrics_dict, prediction_expr, kwargs) ==
    \E r \in {ScoreMechanical(time, raw_solution, target, metrics_dict,
                              prediction_expr, kwargs)} :
       Scored("score_mechanical_model",
              [target |-> target, metrics_dict |-> metrics_dict,
               prediction_expr |-> prediction_expr, kwargs |-> kwargs], r)

score_electrical_model(target, metrics_dict, prediction_expr, kwargs) ==
    \E r \in {ScoreElectrical(time, raw_solution, electrical_model, load_model,
                              coil_resistance, target, metrics_dict,
                              prediction_expr, kwargs)} :
       Scored("score_electrical_model",
              [target |-> target, metrics_dict |-> metrics_dict,
               prediction_expr |-> prediction_expr, kwargs |-> kwargs], r)

ScoringNext ==
    \/ \E m \in MechanicalModels : set_mechanical_model(m)
    \/ \E m \in ElectricalModels : set_electrical_model(m)
    \/ \E m \in CouplingModels : set_coupling_model(m)
    \/ set_governing_equations([fn |-> "unified_ode"])
    \/ \E t_max_step \in StepSizes :
          solve(0, MaxTime, <<0, 1, 2, -1, 0>>, t_max_step, "RK45")
    \/ \E load \in {[R |-> 0], [R |-> 1]} : set_load_model(load)
    \/ set_coil_resistance(0)
    \/ \E target \in ScoringTargets, metrics_dict \in ScoringMetrics,
          prediction_expr \in PredictionExprs, kwargs \in ScoringKwargs :
          score_mechanical_model(target, metrics_dict, prediction_expr, kwargs)
    \/ \E target \in ScoringTargets, metrics_dict \in ScoringMetrics,
          prediction_expr \in PredictionExprs, kwargs \in ScoringKwargs :
          score_electrical_model(target, metrics_dict, prediction_expr, kwargs)

----------------------------------------------------------------------------
(* Specifications: one per component, the other components absent *)

Init ==
    /\ UnifiedInit /\ NoEvaluator /\ NoFluxDatabase /\ NoElectricalModel
    /\ NoDamper /\ NoSpring
    /\ disk = EmptyDisk
    /\ ret = Returned("__init__", None)

Next == UnifiedNext

Spec == Init /\ [][Next]_vars

EvaluatorSpecInit ==
    /\ EvaluatorInit /\ UnifiedInit /\ NoFluxDatabase /\ NoElectricalModel
    /\ NoDamper /\ NoSpring
    /\ disk = EmptyDisk
    /\ ret = Returned("__init__", None)

SpecEvaluator == EvaluatorSpecInit /\ [][EvaluatorNext]_vars

FluxSpecInit ==
    /\ FluxInit /\ UnifiedInit /\ NoEvaluator /\ NoElectricalModel
    /\ NoDamper /\ NoSpring
    /\ disk = EmptyDisk

SpecFlux == FluxSpecInit /\ [][FluxNext]_vars

ElectricalSpecInit ==
    /\ ElectricalInit /\ UnifiedInit /\ NoEvaluator /\ NoFluxDatabase
    /\ NoDamper /\ NoSpring
    /\ disk = EmptyDisk
    /\ ret = Returned("__init__", None)

SpecElectrical == ElectricalSpecInit /\ [][ElectricalNext]_vars

PersistenceSpecInit ==
    /\ UnifiedInit /\ NoEvaluator /\ NoFluxDatabase /\ NoElectricalModel
    /\ NoDamper /\ NoSpring
    /\ disk \in InitialDisks
    /\ ret = Returned("__init__", None)

SpecPersistence == PersistenceSpecInit /\ [][PersistenceNext]_vars

MechanicalSpecInit ==
    /\ DamperInit /\ SpringInit
    /\ UnifiedInit /\ NoEvaluator /\ NoFluxDatabase /\ NoElectricalModel
    /\ disk = EmptyDisk

SpecMechanical == MechanicalSpecInit /\ [][MechanicalNext]_vars

\* a UnifiedModel and the ElectricalModel it may refer to
ScoringSpecInit ==
    /\ UnifiedInit /\ NoEvaluator /\ NoFluxDatabase /\ ElectricalInit
    /\ NoDamper /\ NoSpring
    /\ disk = EmptyDisk
    /\ ret = Returned("__init__", None)

SpecScoring == ScoringSpecInit /\ [][ScoringNext]_vars

----------------------------------------------------------------------------
(* Claims about UnifiedModel.solve and get_result *)

SolveSucceeded == ret.op = "solve" /\ ret.exc = NoExc

(* C1: whenever the model holds a solution, the stored time array and the
   stored trajectory match: raw_solution has one row per state component and
   one column per entry of time. *)
C1_TimeAndTrajectoryMatch ==
    (time # None \/ raw_solution # None) =>
        /\ time # None
        /\ raw_solution # None
        /\ Len(raw_solution.a) = StateDim
        /\ \A i \in 1..StateDim : Len(raw_solution.a[i]) = Len(time.a)

C1_Witness ==
    /\ SolveSucceeded
    /\ Len(post_processing_pipeline) >= 1
    /\ Len(time.a) >= 2
    /\ raw_solution.a # psoln.y

(* The state vector after the first k pipelines of the ordered dict
   pipelines have been applied, one after the other, to y. *)
RECURSIVE Stage(_, _, _)
Stage(pipelines, k, y) ==
    IF k = 0 THEN y
    ELSE Pipeline(pipelines[k].val, Stage(pipelines, k - 1, y)).val

(* C2: after a successful solve, every registered pipeline has been called
   exactly once per time-slice, pipeline by pipeline in registration order
   and slice by slice; the k-th pipeline received, for each slice, the full
   state vector produced by the k-1 pipelines before it from the
   integrator's column; and raw_solution holds the output of the last one. *)
C2_PipelinesAppliedInOrder ==
    SolveSucceeded =>
        LET P == post_processing_pipeline
            n == Len(psoln.t)
            col0 == Transpose(psoln.y)
        IN  /\ Len(pipeline_calls) = Len(P) * n
            /\ \A k \in 1..Len(P) : \A j \in 1..n :
                  /\ pipeline_calls[(k - 1) * n + j].name = P[k].key
                  /\ pipeline_calls[(k - 1) * n + j].arg = Stage(P, k - 1, col0[j])
                  /\ Len(pipeline_calls[(k - 1) * n + j].arg) = StateDim
            /\ \A j \in 1..n :
                  Transpose(raw_solution.a)[j] = Stage(P, Len(P), col0[j])

C2_Witness ==
    /\ SolveSucceeded
    /\ Len(post_processing_pipeline) = 2
    /\ post_processing_pipeline[1].val # post_processing_pipeline[2].val
    /\ Len(time.a) >= 2
    /\ raw_solution.a # psoln.y
    /\ raw_solution.a #
          _apply_pipeline_reversed(post_processing_pipeline, psoln.y).raw_solution

ColumnNames(table) == [i \in 1..Len(table.columns) |-> table.columns[i].key]

(* C3: a get_result call leaves time and raw_solution as they were, and
   when it is called with the expressions x1..x5 and t it returns a table
   whose columns, under the caller's names and in the caller's order, are
   exactly the rows of the stored raw_solution and the stored time array. *)
C3_GetResultRoundTrip ==
    [][ret'.op = "get_result" =>
          /\ UNCHANGED <<time, raw_solution>>
          /\ (ret'.exc = NoExc /\ ColumnNames(ret'.val) = ColumnNames([columns |-> RoundTripQuery])) =>
                /\ \A i \in 1..StateDim :
                      ret'.val.columns[i].val = raw_solution'.a[i]
                /\ ret'.val.columns[StateDim + 1].val = time'.a]_vars

C3_Witness ==
    /\ ret.op = "get_result"
    /\ ret.exc = NoExc
    /\ ColumnNames(ret.val) = ColumnNames([columns |-> RoundTripQuery])
    /\ Len(time.a) >= 2
    /\ raw_solution.a # psoln.y

----------------------------------------------------------------------------
(* Claims about the evaluator *)

(* C4: a score call on an evaluator whose aligned attributes emf_target_,
   emf_predict_ and time_ are still None fails with the not-fitted error and
   returns no score record. *)
C4_ScoreBeforeFitFails ==
    [][(ret'.op = "score" /\ emf_target_ = None /\ emf_predict_ = None /\ time_ = None)
          => (ret'.exc = "NotFittedError" /\ ret'.val = None)]_vars

C4_Witness ==
    /\ ret.op = "score"
    /\ ret.exc = "NotFittedError"
    /\ fit_calls = 0
    /\ emf_predict_ = None

(* C5: on a fitted evaluator, a score call with the keyword arguments metrics returns a record with exactly
   one field per supplied metric, in keyword order and named by the keyword,
   whose value is that metric function applied to (aligned prediction,
   aligned target); the call leaves the evaluator as it was. *)
C5_ScoreAppliesEachMetric ==
    [][\A metrics \in MetricKwargs :
          (IsFitted /\ score(metrics)) =>
              /\ ret'.exc = NoExc
              /\ Len(ret'.val.fields) = Len(metrics)
              /\ \A i \in 1..Len(metrics) :
                    /\ ret'.val.fields[i].key = metrics[i].key
                    /\ ret'.val.fields[i].val =
                          Metric(metrics[i].val, emf_predict_.a, emf_target_.a)
              /\ UNCHANGED evaluator_vars]_vars

C5_Witness ==
    /\ ret.op = "score"
    /\ ret.exc = NoExc
    /\ Len(ret.val.fields) = 2
    /\ ret.val.fields[1].val # ret.val.fields[2].val
    /\ emf_predict_ # emf_target_
    /\ \E i \in 1..2 : ret.val.fields[i].val.num < 0

(* C6: every fit call replaces what earlier calls left: afterwards the
   stored predicted inputs are the arguments of this call, the aligned time
   base and target are the target's own, and the aligned prediction has one
   value per target time: the sample of this call's prediction at that time
   where there is one, the end value outside the sampled range, and a value
   between the two neighbouring samples otherwise. *)
C6_FitReplaces ==
    [][\A p \in Predictions :
          (fit(p.emf, p.time) \/ fit_transform(p.emf, p.time)) =>
              /\ emf_predict' = Arr(p.emf)
              /\ time_predict' = Arr(p.time)
              /\ time_' = time_target
              /\ emf_target_' = emf_target
              /\ Len(emf_predict_'.a) = Len(time_target.a)
              /\ \A i \in 1..Len(time_target.a) :
                    LET x == time_target.a[i]
                        v == emf_predict_'.a[i]
                        n == Len(p.time)
                    IN  /\ \A j \in 1..n : p.time[j] = x => v = p.emf[j]
                        /\ x < p.time[1] => v = p.emf[1]
                        /\ x > p.time[n] => v = p.emf[n]
                        /\ \A k \in 1..(n - 1) :
                              (p.time[k] < x /\ x < p.time[k + 1]) =>
                                  /\ Min(p.emf[k], p.emf[k + 1]) <= v
                                  /\ v <= Max(p.emf[k], p.emf[k + 1])]_vars

C6_Witness ==
    /\ fit_calls = 2
    /\ ret.op = "fit"
    /\ time_predict.a # time_target.a
    /\ emf_predict_.a # emf_predict.a
    /\ Len(emf_predict_.a) = Len(time_target.a)

----------------------------------------------------------------------------
(* Claims about the FluxDatabase *)

IndexedNames == {lut.d[i].key : i \in 1..Len(lut.d)}

KeyNames(kwargs) == {kwargs[i].key : i \in 1..Len(kwargs)}

(* C7: a query that names exactly the parameters and values of an earlier
   successful add returns the value of the last such add, whatever was added
   or queried under other keys in between. *)
C7_AddQueryRoundTrip ==
    [][\A kwargs \in KeyDicts :
          (ret'.op = "query" /\ DictHas(added, ParameterSet(kwargs)) /\ query(kwargs)) =>
              /\ ret'.exc = NoExc
              /\ ret'.val = Arr(DictGet(added, ParameterSet(kwargs)))]_vars

C7_Witness ==
    /\ ret.op = "query"
    /\ ret.exc = NoExc
    /\ ret.val.a \in AddedValues
    /\ Len(lut.d) = 2
    /\ Len(database) = 4
    /\ \E i \in 1..Len(database) : database[i].val \notin AddedValues
    /\ \E i \in 1..Len(database) : database[i].val \in AddedValues \ {ret.val.a}

(* C8: a query fails with a key error and returns nothing when it names a
   parameter that is not in the index, omits an indexed parameter, or gives
   a combination under which nothing was added; it leaves the index and the
   database as they were. *)
C8_QueryMissFails ==
    [][\A kwargs \in KeyDicts :
          (/\ ret'.op = "query"
           /\ \/ KeyNames(kwargs) \ IndexedNames # {}
              \/ IndexedNames \ KeyNames(kwargs) # {}
              \/ ~DictHas(added, ParameterSet(kwargs))
           /\ query(kwargs)) =>
              /\ ret'.exc = "KeyError"
              /\ ret'.val = None
              /\ UNCHANGED <<lut, database>>]_vars

C8_Witness ==
    /\ ret.op = "query"
    /\ ret.exc = "KeyError"
    /\ Len(lut.d) = 2
    /\ Len(database) >= 3

FirstHeader == raw_database.columns[1].header

\* the place of the first token of the first data column's header that names n
FirstOccurrence(n) ==
    CHOOSE i \in 1..Len(FirstHeader) :
        /\ Len(FirstHeader[i]) >= 2 /\ PartText(FirstHeader[i][1]) = n
        /\ \A j \in 1..(i - 1) :
              ~(Len(FirstHeader[j]) >= 2 /\ PartText(FirstHeader[j][1]) = n)

(* C9: the index of a constructed database maps exactly the parameter names
   of the first data column's header to the positions 0, 1, ... in header
   order, every stored key has one slot per indexed name, no call changes
   the index, and a call of _create_index raises an error. *)
C9_IndexBuiltOnce ==
    /\ [](FluxDatabaseExists =>
            /\ lut # None
            /\ IndexedNames = {PartText(FirstHeader[i][1]) :
                                  i \in {j \in 1..Len(FirstHeader) : Len(FirstHeader[j]) >= 2}}
            /\ \A i \in 1..Len(lut.d) : lut.d[i].val = i - 1
            /\ \A i \in 1..Len(lut.d) : \A j \in 1..Len(lut.d) :
                  i < j => FirstOccurrence(lut.d[i].key) < FirstOccurrence(lut.d[j].key)
            /\ \A i \in 1..Len(database) : Len(database[i].key) = Len(lut.d))
    /\ [][FluxDatabaseExists =>
            /\ lut' = lut
            /\ ret'.op = "_create_index" => ret'.exc = "ValueError"]_vars

C9_Witness ==
    /\ ret.op = "_create_index"
    /\ ret.exc = "ValueError"
    /\ Len(lut.d) = 2
    /\ Len(database) >= 3

----------------------------------------------------------------------------
(* Claims about the ElectricalModel *)

(* C10: get_current leaves the electrical model as it was.  Without a load
   model it returns 0 for every emf.  With a load model of resistance R_load
   it returns the value of emf * R_load / (R_load + R_coil) / R_load: zero
   for an infinite coil resistance, the current I with
   I * (R_load + R_coil) * R_load = emf * R_load otherwise, and the division
   error of that expression where a divisor R_load + R_coil or R_load is
   zero. *)
C10_GetCurrent ==
    [][\A emf \in (0 - MaxEmf)..MaxEmf :
          (ret'.op = "get_current" /\ get_current(emf)) =>
              /\ UNCHANGED electrical_vars
              /\ load_model = None => ret' = Returned("get_current", Rational(0, 1))
              /\ load_model # None =>
                    LET R_load == load_model.R
                        R_coil == coil_resistance
                    IN  IF R_load = 0 \/ (R_coil # Inf /\ R_load + R_coil.num = 0)
                        THEN ret'.exc = "ZeroDivisionError"
                        ELSE /\ ret'.exc = NoExc
                             /\ ret'.val.den > 0
                             /\ IF R_coil = Inf THEN ret'.val.num = 0
                                ELSE ret'.val.num * (R_load + R_coil.num) * R_load
                                        = emf * R_load * ret'.val.den]_vars

C10_Witness ==
    /\ ret.op = "get_current"
    /\ ret.exc = NoExc
    /\ load_model # None
    /\ coil_resistance # Inf
    /\ ret.val.den = 3
    /\ ret.val.num < 0

\* (f(x + d) - f(x - d)) / (2 d), in floating point
CentralDifference(f, x) ==
    Over(Minus(FunctionValue(f, x + delta_x), FunctionValue(f, x - delta_x)), 2 * delta_x)

(* C11: without the precomputed gradient, get_flux_gradient returns exactly
   0.0 whenever the central finite difference of the flux model at x3 - x1
   is infinite or not a number. *)
C11_NonFiniteGradientIsZero ==
    [][\A y \in GradientStates :
          (/\ ret'.op = "get_flux_gradient"
           /\ Len(y) = StateDim
           /\ precompute_gradient = FALSE
           /\ flux_model # None
           /\ ~isfinite(CentralDifference(flux_model, y[3] - y[1]))
           /\ get_flux_gradient(y)) =>
              ret' = Returned("get_flux_gradient", Rational(0, 1))]_vars

(* C12: on a model whose flux model is set, get_flux_gradient of a
   five-component state returns a value: with the precomputed gradient
   enabled the value of the cached derivative at x3 - x1, otherwise the
   central finite difference of the flux model there (where that is
   finite). *)
C12_GradientInBothModes ==
    [][\A y \in GradientStates :
          (/\ ret'.op = "get_flux_gradient"
           /\ Len(y) = StateDim
           /\ flux_model # None
           /\ get_flux_gradient(y)) =>
              /\ ret'.exc = NoExc
              /\ precompute_gradient = TRUE =>
                    /\ flux_gradient # None
                    /\ ret'.val = FunctionValue(flux_gradient, y[3] - y[1])
              /\ (/\ precompute_gradient = FALSE
                  /\ isfinite(CentralDifference(flux_model, y[3] - y[1]))) =>
                    ret'.val = CentralDifference(flux_model, y[3] - y[1])]_vars

(* C13: set_flux_model installs both functions; from then on get_emf returns
   the installed derivative at the position times the velocity, whatever
   the load model and the coil resistance are, and changes nothing. *)
C13_EmfIsDerivativeTimesVelocity ==
    /\ [][\A m \in FluxModelPairs :
             set_flux_model(m.flux, m.dflux) =>
                 flux_model' = m.flux /\ dflux_model' = m.dflux]_vars
    /\ [][\A mag_pos \in MagnetPositions, mag_vel \in MagnetVelocities :
             (/\ ret'.op = "get_emf"
              /\ dflux_model \notin {None, Absent}
              /\ get_emf(mag_pos, mag_vel)) =>
                 /\ ret' = Returned("get_emf",
                                    Times(FunctionValue(dflux_model, mag_pos), mag_vel))
                 /\ UNCHANGED electrical_vars]_vars

C13_Witness ==
    /\ ret.op = "get_emf"
    /\ ret.exc = NoExc
    /\ dflux_model = [fn |-> "linear"]
    /\ load_model # None
    /\ coil_resistance # Inf
    /\ ret.val = Rational(0 - 6, 1)

----------------------------------------------------------------------------
(* Claims about the persistence of the UnifiedModel *)

\* the artifact files under the directory of a path, as a dict from stem to value
RECURSIVE ArtifactsUnder(_, _)
ArtifactsUnder(files, n) ==
    IF files = <<>> THEN <<>>
    ELSE IF files[1].key.dir = n
    THEN <<[key |-> files[1].key.stem, val |-> files[1].val]>> \o ArtifactsUnder(Tail(files), n)
    ELSE ArtifactsUnder(Tail(files), n)

(* C14: save_to_disk on a path that names an existing directory or file
   raises the already-exists error and leaves every file and directory as
   it was. *)
C14_SaveOnExistingPathFails ==
    [][\A path \in Paths :
          (/\ ret'.op = "save_to_disk"
           /\ path.name \in disk.dirs \cup disk.others
           /\ save_to_disk(path)) =>
              /\ ret' = Raised("save_to_disk", "FileExistsError")
              /\ disk' = disk]_vars

C14_Witness ==
    /\ ret = Raised("save_to_disk", "FileExistsError")
    /\ "m" \in disk.dirs
    /\ Len(disk.files) = Len(Attributes)
    /\ governing_equations # None
    /\ \E i \in 1..Len(disk.files) :
          /\ disk.files[i].key = [dir |-> "m", prefix |-> "", stem |-> "governing_equations"]
          /\ disk.files[i].val = None

(* C15: load_from_disk on a path that is not an existing directory raises
   the not-found error. *)
C15_LoadMissingPathNotFound ==
    [][\A path \in Paths :
          (/\ ret'.op = "load_from_disk"
           /\ path.name \notin disk.dirs
           /\ load_from_disk(path)) =>
              ret' = Raised("load_from_disk", "FileNotFoundError")]_vars

(* C16: a save on a fresh path writes one artifact file per attribute under
   the directory, and a load of a directory that holds the artifacts of a
   save returns a model with those attribute names and values. *)
C16_SaveLoadRoundTrip ==
    /\ [][\A path \in Paths :
             (/\ ret'.op = "save_to_disk"
              /\ path.name \notin disk.dirs \cup disk.others
              /\ save_to_disk(path)) =>
                 /\ ret'.exc = NoExc
                 /\ ArtifactsUnder(disk'.files, path.name) = Attributes]_vars
    /\ [][\A path \in Paths :
             (/\ ret'.op = "load_from_disk"
              /\ path.name \in disk.dirs
              /\ Len(ArtifactsUnder(disk.files, path.name)) = Len(Attributes)
              /\ load_from_disk(path)) =>
                 /\ ret'.exc = NoExc
                 /\ ret'.val = [attributes |-> ArtifactsUnder(disk.files, path.name)]]_vars

----------------------------------------------------------------------------
(* Claims about the integrator call of UnifiedModel.solve *)

(* C17: a solve that gets a result from the integrator has integrated from
   y0 at t_start, to t_end when it succeeded, in steps of at most
   t_max_step, with the method the caller named. *)
C17_SolveUsesCallersMethod ==
    [][\A t_start \in StartTimes, y0 \in InitialStates, t_max_step \in StepSizes,
          method \in Methods, t_end \in 0..MaxTime :
          (/\ ret'.op = "solve"
           /\ psoln' # None
           /\ t_start <= t_end
           /\ solve(t_start, t_end, y0, t_max_step, method)) =>
              /\ psoln'.method = method
              /\ psoln'.t[1] = t_start
              /\ \A i \in 1..StateDim : psoln'.y[i][1] = y0[i]
              /\ psoln'.success => psoln'.t[Len(psoln'.t)] = t_end
              /\ \A i \in 1..(Len(psoln'.t) - 1) :
                    psoln'.t[i + 1] - psoln'.t[i] <= t_max_step]_vars

(* C18: when the integrator returns a result that reports failure, solve
   raises an error and stores neither the time nor the trajectory of that
   result. *)
C18_IntegratorFailureSurfaces ==
    [][(/\ ret'.op = "solve"
        /\ psoln' # None
        /\ ~psoln'.success) =>
           /\ ret'.exc # NoExc
           /\ UNCHANGED <<time, raw_solution>>]_vars

(* C19: when the governing equations raise during solve (they read a model
   that is not set), the caller of solve gets that error, no integrator
   result is kept and the model is left as it was. *)
C19_GoverningErrorPropagates ==
    [][(/\ ret'.op = "solve"
        /\ governing_equations # None
        /\ None \in {mechanical_model, electrical_model, coupling_model}) =>
           /\ ret' = Raised("solve", "AttributeError")
           /\ psoln' = None
           /\ UNCHANGED <<mechanical_model, electrical_model, coupling_model,
                          governing_equations, raw_solution,
                          post_processing_pipeline, time>>]_vars

C19_Witness ==
    /\ ret = Raised("solve", "AttributeError")
    /\ governing_equations # None
    /\ mechanical_model # None
    /\ electrical_model # None
    /\ coupling_model = None
    /\ Len(post_processing_pipeline) = 2
    /\ time = None

----------------------------------------------------------------------------
(* The scoring example of test_score *)

ExampleMetrics ==
    <<[key |-> "mean", val |-> "mean_both"], [key |-> "max_value", val |-> "max_both"]>>

\* the evaluator holds the example's target and has been fitted to its prediction
ExampleFitted ==
    /\ emf_target = Arr(ExampleTarget.emf)
    /\ time_target = Arr(ExampleTarget.time)
    /\ emf_predict = Arr(ExamplePrediction.emf)
    /\ time_predict = Arr(ExamplePrediction.time)
    /\ IsFitted

(* C20 as stated: on the example, score returns a mean that rounds to 3.33
   and a max_value of 6. *)
C20_ExampleScoreAsStated ==
    [][(ret'.op = "score" /\ ExampleFitted /\ score(ExampleMetrics)) =>
           /\ ret'.exc = NoExc
           /\ ret'.val.fields[1].key = "mean"
           /\ 3325 * ret'.val.fields[1].val.den <= 1000 * ret'.val.fields[1].val.num
           /\ 1000 * ret'.val.fields[1].val.num < 3335 * ret'.val.fields[1].val.den
           /\ ret'.val.fields[2].key = "max_value"
           /\ ret'.val.fields[2].val.num = 6 * ret'.val.fields[2].val.den]_vars

(* C20, amended: on the example, score returns the mean 58/18 of the
   eighteen values, which rounds to 3.22, and a max_value of 6. *)
C20_ExampleScore ==
    [][(ret'.op = "score" /\ ExampleFitted /\ score(ExampleMetrics)) =>
           /\ ret'.exc = NoExc
           /\ ret'.val.fields[1].key = "mean"
           /\ 18 * ret'.val.fields[1].val.num = 58 * ret'.val.fields[1].val.den
           /\ 3215 * ret'.val.fields[1].val.den <= 1000 * ret'.val.fields[1].val.num
           /\ 1000 * ret'.val.fields[1].val.num < 3225 * ret'.val.fields[1].val.den
           /\ ret'.val.fields[2].key = "max_value"
           /\ ret'.val.fields[2].val.num = 6 * ret'.val.fields[2].val.den]_vars

C20_Witness ==
    /\ ExampleFitted
    /\ ret.op = "score"
    /\ ret.exc = NoExc
    /\ Len(ret.val.fields) = 2
    /\ ret.val.fields[1] = [key |-> "mean", val |-> [num |-> 58, den |-> 18]]
    /\ ret.val.fields[2] = [key |-> "max_value", val |-> [num |-> 6, den |-> 1]]

----------------------------------------------------------------------------
(* Claims about what solve and the pipeline registration leave alone *)

(* C22: a solve call, successful or failed, leaves the three sub-models, the
   governing equations and the registered pipelines with their order as
   they were; the governing equations get the model's three sub-models, so
   they fail on a missing sub-model exactly when one of the three is not
   set. *)
C22_SolveKeepsConfiguration ==
    [][ret'.op = "solve" =>
          /\ UNCHANGED <<mechanical_model, electrical_model, coupling_model,
                         governing_equations, post_processing_pipeline>>
          /\ governing_equations # None =>
                (ret'.exc = "AttributeError"
                    <=> None \in {mechanical_model, electrical_model, coupling_model})]_vars

C22_Witness ==
    /\ ret = Raised("solve", "ValueError")
    /\ Len(post_processing_pipeline) = 2
    /\ post_processing_pipeline[2].val = "strict_x2"
    /\ None \notin {mechanical_model, electrical_model, coupling_model}
    /\ governing_equations = [fn |-> "singular_ode"]

(* C25: a solve call that raises leaves time and raw_solution as they were
   before the call. *)
C25_FailedSolveKeepsSolution ==
    [][(ret'.op = "solve" /\ ret'.exc # NoExc) => UNCHANGED <<time, raw_solution>>]_vars

(* C26: the model holds one pipeline per name; registering under a name
   that is already there replaces the function where it stands and leaves
   the other entries and the order alone, and registering under a new name
   appends. *)
C26_RegistrationKeepsOrder ==
    /\ [](\A i \in 1..Len(post_processing_pipeline) :
             \A j \in 1..Len(post_processing_pipeline) :
                post_processing_pipeline[i].key = post_processing_pipeline[j].key => i = j)
    /\ [][\A f \in PipelineFunctions, n \in PipelineNames :
             (ret'.op = "set" /\ set_post_processing_pipeline(f, n)) =>
                IF \E i \in 1..Len(post_processing_pipeline) :
                      post_processing_pipeline[i].key = n
                THEN /\ Len(post_processing_pipeline') = Len(post_processing_pipeline)
                     /\ \A i \in 1..Len(post_processing_pipeline) :
                           /\ post_processing_pipeline'[i].key = post_processing_pipeline[i].key
                           /\ post_processing_pipeline'[i].val =
                                 IF post_processing_pipeline[i].key = n THEN f
                                 ELSE post_processing_pipeline[i].val
                ELSE post_processing_pipeline' =
                        Append(post_processing_pipeline, [key |-> n, val |-> f])]_vars

C26_Witness ==
    /\ ret.op = "set"
    /\ Len(post_processing_pipeline) = 2
    /\ post_processing_pipeline[1] = [key |-> "flip", val |-> "clip_x2"]
    /\ post_processing_pipeline[2] = [key |-> "clip", val |-> "flip_x2"]
    /\ raw_solution # None

(* C27: every key of the database is a tuple with one filled slot per
   indexed parameter and no key stands twice; the database has exactly one
   entry per set of parameter values that was added, whatever the order the
   parameters were given in, its key holds each value at the position the
   index gives to the parameter's name, and its value is the one added
   last. *)
C27_KeysAreCanonical ==
    FluxDatabaseExists =>
       /\ lut # None
       /\ \A i \in 1..Len(database) :
             /\ Len(database[i].key) = Len(lut.d)
             /\ \A j \in 1..Len(lut.d) : database[i].key[j] # None
             /\ \A j \in 1..Len(database) : database[j].key = database[i].key => j = i
       /\ Len(database) = Len(added)
       /\ \A i \in 1..Len(added) :
             \E j \in 1..Len(database) :
                /\ database[j].val = added[i].val
                /\ \A p \in added[i].key :
                      database[j].key[DictGet(lut.d, p[1]) + 1] = [v |-> p[2]]

C27_Witness ==
    /\ ret = Returned("add", None)
    /\ raw_database = CsvTwoParameters
    /\ Len(database) = 2
    /\ database[1] = [key |-> <<[v |-> "1"], [v |-> "1"]>>, val |-> <<9, 9, 9>>]
    /\ database[2].val = <<7, 8, 7>>

----------------------------------------------------------------------------
(* Claims about the mechanical components *)

(* C21: get_force of a damper with coefficient c returns c * v for every
   velocity v, so the force of a negative velocity is the negated force of
   the opposite velocity, and the call leaves the coefficient as it was. *)
C21_DamperForce ==
    [][\A velocity_ \in DamperVelocities :
          (ret'.op = "ConstantDamper.get_force" /\ ConstantDamper_get_force(velocity_)) =>
              /\ ret'.exc = NoExc
              /\ ret'.val = damping_coefficient.a * velocity_
              /\ ret'.val = -(damping_coefficient.a * (-velocity_))
              /\ damping_coefficient' = damping_coefficient]_vars

C21_Witness ==
    /\ ret = Returned("ConstantDamper.get_force", -4)
    /\ damping_coefficient = Arr(2)

(* C24: a spring constructed with the iterative model type has its
   model_parameters set; get_force and get_force_array change no attribute
   of the spring; get_force_array returns one force per position, in order,
   each the force get_force gives for it; only _set_model and
   _fit_model_parameters change the fitted state. *)
C24_FittedOnceImmutable ==
    /\ []((SpringExists /\ model_type.text = "iterative") => model_parameters # None)
    /\ [][ret'.op \in {"MagneticSpring.get_force", "get_force_array"} =>
             UNCHANGED spring_vars]_vars
    /\ [][\A z_array \in PositionArrays :
             (ret'.op = "get_force_array" /\ get_force_array(z_array)) =>
                 /\ ret'.exc = NoExc
                 /\ Len(ret'.val) = Len(z_array)
                 /\ \A i \in 1..Len(z_array) :
                       ret'.val[i] = SpringForce(model, model_parameters, model_type,
                                                 z_array[i]).val]_vars
    /\ [][spring_vars' # spring_vars =>
             ret'.op \in {"_set_model", "_fit_model_parameters"}]_vars

----------------------------------------------------------------------------
(* Claims about the scoring helpers *)

(* C23: a scoring helper leaves the model, its time and its raw_solution as
   they were and never ends in the not-fitted error of score.  When it
   returns, the evaluator it made is a new one that was fitted exactly once,
   with the time of the solved state as the predicted time and, for the
   open circuit, the expression's value on the solved state as the
   prediction; the result is the score record of that evaluator, alone, or
   paired with the evaluator when return_evaluator is true.  When it raises,
   no evaluator was made. *)
C23_HelpersFitBeforeScore ==
    [][ret'.op \in {"score_mechanical_model", "score_electrical_model"} =>
          /\ UNCHANGED unified_vars
          /\ ret'.exc # "NotFittedError"
          /\ ret'.exc # NoExc => UNCHANGED evaluator_vars
          /\ ret'.exc = NoExc =>
                /\ IsFitted'
                /\ fit_calls' = 1
                /\ emf_target' = Arr(ret'.args.target.emf)
                /\ time_target' = Arr(ret'.args.target.time)
                /\ time_predict' = time
                /\ ~(ret'.args.kwargs.closed_circuit /\ ret'.op = "score_electrical_model") =>
                      emf_predict' = Arr(EvalExpression(ret'.args.prediction_expr, time.a,
                                                        raw_solution.a))
                /\ LET record == ScoreRecord(ret'.args.metrics_dict,
                                             emf_predict_'.a, emf_target_'.a)
                   IN  ret'.val = IF ret'.args.kwargs.return_evaluator
                                  THEN [scores |-> record, evaluator |-> EvaluatorValue']
                                  ELSE record]_vars

C23_Witness ==
    /\ ret.op = "score_electrical_model"
    /\ ret.exc = NoExc
    /\ "evaluator" \in DOMAIN ret.val
    /\ Len(ret.val.scores.fields) = 2
    /\ fit_calls = 1
    /\ emf_predict = Arr(<<0, 0, 0>>)
    /\ load_model # None
    /\ coil_resistance = Inf

====
